---- MODULE Spec2Model ----
(***************************************************************************)
(* Petri-net trace generation: the classic semantics engine, the Resource  *)
(* counter, batch playout and the streaming event generator of             *)
(* src/src/generation.                                                     *)
(*                                                                         *)
(* A marking is a function whose DOMAIN is the set of places present in    *)
(* the pm4py Marking (a Counter); a place that is absent reads as 0.       *)
(***************************************************************************)
EXTENDS Integers, Sequences, FiniteSets, TLC

\* ------------------------------------------------------------------ bounds
MaxArcs == 3
MaxTokens == 2
MaxCapacity == 2
MaxAvailable == 3
MaxClock == 2
MaxTraces == 2
MaxTraceLength == 2
MaxAttempts == 4
MaxCases == 3
MaxEvents == 2

\* ------------------------------------------------------------ the universe
Places == {"p1", "p2"}
\* Transitions registered in the net under test, and one that is not.
NetTransitions == {"t1", "t2"}
ForeignTransition == "t3"
AllTransitions == NetTransitions \cup {ForeignTransition}
Weights == {1, 2}
Resources == {"R1", "R2"}

\* Python's None, as a value comparable with (and different from) every marking.
NoneValue == [x \in {"None"} |-> 0]

\* ------------------------------------------------------ Marking (a Counter)
\* Counter.__getitem__: a missing key reads as 0 and is not inserted.
Get(m, p) == IF p \in DOMAIN m THEN m[p] ELSE 0

\* Counter.__setitem__
Put(m, p, v) == [q \in (DOMAIN m) \cup {p} |-> IF q = p THEN v ELSE m[q]]

\* m_out.clear() in the place of del m_out[p].
Del_Clear(m, p) == <<>>

\* del m[p]
Del(m, p) == [q \in (DOMAIN m) \ {p} |-> m[q]]

\* A read that inserts the missing key, as a defaultdict does.
ReadLeaves_Inserts(m, p) == Put(m, p, Get(m, p))

\* The mapping m after m[p] was read: Counter.__missing__ returns 0 and
\* inserts nothing.
ReadLeaves(m, p) == m

\* copy(m): a new Marking with the entries of m.
Copy(m) == m

\* ------------------------------------------------------------------ the net
\* t.in_arcs / t.out_arcs: the arcs add_sim_arc_from_to attached to t.
InArcs(t, pn) == SelectSeq(pn.arcs, LAMBDA a : a.target = t)

OutArcs(t, pn) == SelectSeq(pn.arcs, LAMBDA a : a.source = t)

\* add_sim_arc_from_to: a new arc object, added to net.arcs, fr.out_arcs, to.in_arcs.
AddSimArcFromTo(fr, to, arcs, weight) ==
    Append(arcs, [source |-> fr, target |-> to, weight |-> weight])

\* --------------------------------------------------- ClassicPetriNetSemantics
\* is_enabled with the comparison off by one (<= for <).
IsEnabled_OffByOne(t, pn, m) ==
    /\ t \in pn.transitions
    /\ \A k \in 1..Len(InArcs(t, pn)) :
          ~(Get(m, InArcs(t, pn)[k].source) <= InArcs(t, pn)[k].weight)

IsEnabled(t, pn, m) ==
    /\ t \in pn.transitions
    /\ \A k \in 1..Len(InArcs(t, pn)) :
          ~(Get(m, InArcs(t, pn)[k].source) < InArcs(t, pn)[k].weight)

\* The caller's marking after the loop of is_enabled read it, arc by arc up to
\* the first arc that returns False.
RECURSIVE AfterReads(_, _)
AfterReads(arcs, m) ==
    IF arcs = <<>> THEN m
    ELSE LET a == Head(arcs)
             m1 == ReadLeaves(m, a.source)
         IN IF Get(m, a.source) < a.weight THEN m1 ELSE AfterReads(Tail(arcs), m1)

\* The caller's marking after is_enabled(t, pn, m) returned.
AfterIsEnabled(t, pn, m) ==
    IF t \in pn.transitions THEN AfterReads(InArcs(t, pn), m) ELSE m

\* for a in t.in_arcs: m_out[a.source] -= a.weight; if m_out[a.source] == 0: del
RECURSIVE ConsumeStrong(_, _)
ConsumeStrong(arcs, m) ==
    IF arcs = <<>> THEN m
    ELSE LET a == Head(arcs)
             m1 == Put(m, a.source, Get(m, a.source) - a.weight)
             m2 == IF m1[a.source] = 0 THEN Del(m1, a.source) ELSE m1
         IN ConsumeStrong(Tail(arcs), m2)

\* for a in t.in_arcs: m_out[a.source] -= a.weight; if m_out[a.source] <= 0: del
RECURSIVE ConsumeWeak(_, _)
ConsumeWeak(arcs, m) ==
    IF arcs = <<>> THEN m
    ELSE LET a == Head(arcs)
             m1 == Put(m, a.source, Get(m, a.source) - a.weight)
             m2 == IF m1[a.source] <= 0 THEN Del(m1, a.source) ELSE m1
         IN ConsumeWeak(Tail(arcs), m2)

\* for a in t.out_arcs: m_out[a.target] += a.weight
RECURSIVE Produce(_, _)
Produce(arcs, m) ==
    IF arcs = <<>> THEN m
    ELSE LET a == Head(arcs)
         IN Produce(Tail(arcs), Put(m, a.target, Get(m, a.target) + a.weight))

\* execute returning an empty Marking where the code returns None.
Execute_EmptyOnFailure(t, pn, m) ==
    IF ~IsEnabled(t, pn, m) THEN <<>>
    ELSE Produce(OutArcs(t, pn), ConsumeStrong(InArcs(t, pn), Copy(m)))

Execute(t, pn, m) ==
    IF ~IsEnabled(t, pn, m) THEN NoneValue
    ELSE Produce(OutArcs(t, pn), ConsumeStrong(InArcs(t, pn), Copy(m)))

\* The caller's marking after execute: is_enabled read it, the rest works on m_out.
AfterExecute(t, pn, m) == AfterIsEnabled(t, pn, m)

WeakExecute(t, pn, m) ==
    Produce(OutArcs(t, pn), ConsumeWeak(InArcs(t, pn), Copy(m)))

\* enabled_transitions without the test of the marking: every transition of the net.
EnabledTransitions_All(pn, m) == pn.transitions

\* The caller's marking after weak_execute: only the copy is touched.
AfterWeakExecute(t, pn, m) == m

EnabledTransitions(pn, m) == {t \in pn.transitions : IsEnabled(t, pn, m)}

\* The caller's marking after enabled_transitions called is_enabled for each
\* transition of ts.
RECURSIVE AfterEnabledTransitions(_, _, _)
AfterEnabledTransitions(ts, pn, m) ==
    IF ts = {} THEN m
    ELSE LET t == CHOOSE x \in ts : TRUE
         IN AfterEnabledTransitions(ts \ {t}, pn, AfterIsEnabled(t, pn, m))

\* pm4py Marking.__eq__: the same places present with the same counts.
MarkingEq(m1, m2) == m1 = m2

\* pm4py Marking.__le__: every place present in m1 is present in m2 with at
\* least m1's count.
MarkingLeq(m1, m2) ==
    /\ DOMAIN m1 \subseteq DOMAIN m2
    /\ \A p \in DOMAIN m1 : m1[p] <= m2[p]

\* ------------------------------------------------------------ example nets
NoLabel == "<None>"
NoCallback == [kind |-> "none", resource |-> "R1"]
Arc(fr, to, w) == [source |-> fr, target |-> to, weight |-> w]

\* P1 -[1]-> T(label A, duration 10) -[1]-> P2, T requiring the resources rs.
SimpleNet(rs) ==
    [name |-> "simple",
     transitions |-> {"t1"},
     arcs |-> <<Arc("p1", "t1", 1), Arc("t1", "p2", 1)>>,
     label |-> [t \in {"t1"} |-> "A"],
     duration |-> [t \in {"t1"} |-> 10],
     resources |-> [t \in {"t1"} |-> rs],
     on_fire_callback |-> [t \in {"t1"} |-> NoCallback]]

\* From p1: t1 (A) to p2, t2 (B) to p2 and p3, t3 (silent) to p3.
ChoiceNet ==
    [name |-> "choice",
     transitions |-> {"t1", "t2", "t3"},
     arcs |-> <<Arc("p1", "t1", 1), Arc("t1", "p2", 1),
                Arc("p1", "t2", 1), Arc("t2", "p2", 1), Arc("t2", "p3", 1),
                Arc("p1", "t3", 1), Arc("t3", "p3", 1)>>,
     label |-> [t \in {"t1", "t2", "t3"} |->
                  IF t = "t1" THEN "A" ELSE IF t = "t2" THEN "B" ELSE NoLabel],
     duration |-> [t \in {"t1", "t2", "t3"} |-> IF t = "t2" THEN 2 ELSE 1],
     resources |-> [t \in {"t1", "t2", "t3"} |-> {}],
     on_fire_callback |-> [t \in {"t1", "t2", "t3"} |-> NoCallback]]

\* A cycle: p1 -> t1 (A) -> p2 -> t2 (silent) -> p1.
LoopNet ==
    [name |-> "loop",
     transitions |-> {"t1", "t2"},
     arcs |-> <<Arc("p1", "t1", 1), Arc("t1", "p2", 1),
                Arc("p2", "t2", 1), Arc("t2", "p1", 1)>>,
     label |-> [t \in {"t1", "t2"} |-> IF t = "t1" THEN "A" ELSE NoLabel],
     duration |-> [t \in {"t1", "t2"} |-> 1],
     resources |-> [t \in {"t1", "t2"} |-> {}],
     on_fire_callback |-> [t \in {"t1", "t2"} |-> NoCallback]]

\* p1 -[2]-> t1 (A) -> p2: one token on p1 enables nothing.
DeadNet ==
    [name |-> "dead",
     transitions |-> {"t1"},
     arcs |-> <<Arc("p1", "t1", 2), Arc("t1", "p2", 1)>>,
     label |-> [t \in {"t1"} |-> "A"],
     duration |-> [t \in {"t1"} |-> 1],
     resources |-> [t \in {"t1"} |-> {}],
     on_fire_callback |-> [t \in {"t1"} |-> NoCallback]]

\* add_sim_arc_from_to called twice for p1 and t1: two arcs p1 -[1]-> t1, then
\* t1 (A) -> p2 -> t2 (B) -> p3.
DoubleArcNet ==
    [name |-> "double",
     transitions |-> {"t1", "t2"},
     arcs |-> <<Arc("p1", "t1", 1), Arc("p1", "t1", 1), Arc("t1", "p2", 1),
                Arc("p2", "t2", 1), Arc("t2", "p3", 1)>>,
     label |-> [t \in {"t1", "t2"} |-> IF t = "t1" THEN "A" ELSE "B"],
     duration |-> [t \in {"t1", "t2"} |-> 1],
     resources |-> [t \in {"t1", "t2"} |-> {}],
     on_fire_callback |-> [t \in {"t1", "t2"} |-> NoCallback]]

\* As net_b of example_mutualistic_net, shortened: t1 (A) moves p1 to p2 and
\* its callback acquires R1 (there t2); t2 (B) has no arcs and its callback
\* releases R1 (there t4); both list R1 as required.
PaintNet ==
    [name |-> "paint",
     transitions |-> {"t1", "t2"},
     arcs |-> <<Arc("p1", "t1", 1), Arc("t1", "p2", 1)>>,
     label |-> [t \in {"t1", "t2"} |-> IF t = "t1" THEN "A" ELSE "B"],
     duration |-> [t \in {"t1", "t2"} |-> 1],
     resources |-> [t \in {"t1", "t2"} |-> {"R1"}],
     on_fire_callback |-> [t \in {"t1", "t2"} |->
                             [kind |-> IF t = "t1" THEN "acquire" ELSE "release",
                              resource |-> "R1"]]]

\* net_a of example_mutualistic_net: p1 -> t1 -> p2 -> t2 -> p3 -> t3 -> p4 and
\* t4 without arcs; durations in seconds.
ExampleNetA ==
    [name |-> "Welding Process",
     transitions |-> {"t1", "t2", "t3", "t4"},
     arcs |-> <<Arc("p1", "t1", 1), Arc("t1", "p2", 1), Arc("p2", "t2", 1),
                Arc("t2", "p3", 1), Arc("p3", "t3", 1), Arc("t3", "p4", 1)>>,
     label |-> [t \in {"t1", "t2", "t3", "t4"} |->
                  CASE t = "t1" -> "Check Robot Availability"
                    [] t = "t2" -> "Weld components on welding robot"
                    [] t = "t3" -> "Report robot availability"
                    [] t = "t4" -> "Package Welded Components"],
     duration |-> [t \in {"t1", "t2", "t3", "t4"} |-> IF t = "t2" THEN 1200 ELSE 5],
     resources |-> [t \in {"t1", "t2", "t3", "t4"} |-> {}],
     on_fire_callback |-> [t \in {"t1", "t2", "t3", "t4"} |-> NoCallback]]

\* net_b of example_mutualistic_net, with res_robot_arm as R1: t2, t3 and t4
\* require it, t2 acquires it and t4, which has no arcs, releases it.
ExampleNetB ==
    [name |-> "Painting Process",
     transitions |-> {"t1", "t2", "t3", "t4"},
     arcs |-> <<Arc("p1", "t1", 1), Arc("t1", "p2", 1), Arc("p2", "t2", 1),
                Arc("t2", "p3", 1), Arc("p3", "t3", 1), Arc("t3", "p4", 1)>>,
     label |-> [t \in {"t1", "t2", "t3", "t4"} |->
                  CASE t = "t1" -> "Check Robot Availability"
                    [] t = "t2" -> "Remodel Robot for Painting"
                    [] t = "t3" -> "Paint Components on robot"
                    [] t = "t4" -> "Report robot availability"],
     duration |-> [t \in {"t1", "t2", "t3", "t4"} |->
                     CASE t = "t2" -> 1200 [] t = "t3" -> 900 [] OTHER -> 5],
     resources |-> [t \in {"t1", "t2", "t3", "t4"} |->
                      IF t = "t1" THEN {} ELSE {"R1"}],
     on_fire_callback |-> [t \in {"t1", "t2", "t3", "t4"} |->
                             CASE t = "t2" -> [kind |-> "acquire", resource |-> "R1"]
                               [] t = "t4" -> [kind |-> "release", resource |-> "R1"]
                               [] OTHER -> NoCallback]]

\* The list example_mutualistic_net returns.
ExampleMutualisticNet ==
    <<[net |-> ExampleNetA, im |-> [p \in {"p1"} |-> 1], fm |-> [p \in {"p4"} |-> 1]],
      [net |-> ExampleNetB, im |-> [p \in {"p1"} |-> 1], fm |-> [p \in {"p4"} |-> 1]]>>

P1One == [p \in {"p1"} |-> 1]
P2One == [p \in {"p2"} |-> 1]

\* (net, initial marking, final marking) triples handed to the engines.
Processes ==
    {[net |-> SimpleNet({}), im |-> P1One, fm |-> P2One],
     [net |-> SimpleNet({"R1"}), im |-> P1One, fm |-> P2One],
     [net |-> ChoiceNet, im |-> P1One, fm |-> P2One],
     [net |-> LoopNet, im |-> P1One, fm |-> P2One],
     [net |-> DeadNet, im |-> P1One, fm |-> P2One],
     [net |-> DoubleArcNet, im |-> P1One, fm |-> P2One],
     [net |-> PaintNet, im |-> P1One, fm |-> P2One]}

\* The resources some transition of the net requires.
RequiredResources(pn) == UNION {pn.resources[t] : t \in pn.transitions}

\* SimTransition.all_resources_available, on the current counters av.
AllResourcesAvailable(t, pn, av) == \A r \in pn.resources[t] : av[r] > 0

\* ------------------------------------------------------------------- state
VARIABLES
    \* parameters of playout_algorithm and PetriNetEventGenerator.__init__
    net,
    initial_marking,
    final_marking,                 \* a marking or NoneValue
    no_traces,
    max_trace_length,
    add_only_if_fm_is_reached,
    fm_leq_accepted,
    \* playout_algorithm
    b_pc,                          \* "idle", "loop", "trace", "check", "returned", "raised"
    i,
    all_visited_elements,
    log,                           \* the EventLog returned
    \* execute_single_trace
    visited_elements,
    visible_transitions_visited,
    marking,
    \* PetriNetEventGenerator
    g_pc,                          \* "idle", "next" (inside __next__), "raised"
    current_marking,
    current_case_id,
    current_timestamp,
    visible_transitions_count,
    events,                        \* the events __next__ has returned, in order
    current_transition,            \* what _fire_transition returned in the latest pass
    \* a second generator built with the same arguments and fed the same draws
    twin_timestamp,
    twin_events,
    twin_clock,                    \* the last value datetime.now() returned to it
    callback_calls,                \* what each on_fire_callback call was given and found
    \* AgentBasedNetSimulator and its ProcessAgents
    s_pc,                          \* "off", "start", "while", "for", "returned"
    agents,                        \* agent index |-> the ProcessAgent
    shared_resources,              \* names registered with register_resource
    event_log,                     \* the simulator's event log
    agent_index,                   \* position of the for loop over the agents
    max_traces,
    end_time,
    selected_transition,           \* of the tick last made
    unmatched_acquires,            \* acquiring firings with no later releasing firing
    \* NetSimulator and its workers
    n_pc,                          \* "off", "running", "returned"
    workers,                       \* worker index |-> generator and process_event_log
    touched_by,                    \* resource |-> the workers that read or wrote it
    alone_available,               \* worker |-> the counts as if it ran alone
    interfered,                    \* worker |-> an availability test came out differently
    sem_pc,      \* "build" while arcs are added, "called" after an engine call
    sem_arcs,    \* net.arcs, in creation order
    sem_t,       \* the transition passed to the engine
    sem_m,       \* the marking passed to the engine
    sem_out,     \* what is_enabled, execute, weak_execute, enabled_transitions returned
    \* BaseResource, one per name
    capacity,
    available,
    latest_release_time,
    clock        \* the last value datetime.now() returned

sem_vars == <<sem_pc, sem_arcs, sem_t, sem_m, sem_out>>

res_vars == <<capacity, available, latest_release_time, clock>>

cfg_vars == <<net, initial_marking, final_marking, no_traces, max_trace_length,
              add_only_if_fm_is_reached, fm_leq_accepted>>

playout_vars == <<b_pc, i, all_visited_elements, log>>

trace_vars == <<visited_elements, visible_transitions_visited, marking>>

gen_vars == <<g_pc, current_marking, current_case_id, current_timestamp,
              visible_transitions_count, events, current_transition,
              twin_timestamp, twin_events, twin_clock, callback_calls>>

agent_vars == <<s_pc, agents, shared_resources, event_log, agent_index, max_traces,
                end_time, selected_transition, unmatched_acquires>>

worker_vars == <<n_pc, workers, touched_by, alone_available, interfered>>

sim_vars == <<agent_vars, worker_vars>>

vars == <<cfg_vars, playout_vars, trace_vars, gen_vars, sem_vars, res_vars, sim_vars>>

\* The net under test.
SemNet == [transitions |-> NetTransitions, arcs |-> sem_arcs]

\* Markings a caller passes: every place present holds at least one token.
InputMarkings ==
    UNION {[S -> 1..MaxTokens] : S \in SUBSET Places}

NoOutput == [is_enabled |-> FALSE, execute |-> NoneValue,
             weak_execute |-> NoneValue, enabled_transitions |-> {},
             m_after |-> [is_enabled |-> <<>>, execute |-> <<>>,
                          weak_execute |-> <<>>, enabled_transitions |-> <<>>]]

\* ------------------------------------------------------------ BaseResource
\* BaseResource.__init__: available starts at capacity, no release yet.
ResInit ==
    /\ capacity \in [Resources -> 0..MaxCapacity]
    /\ available = capacity
    /\ latest_release_time = [r \in Resources |-> NoneValue]
    /\ clock = 0

\* No resource is under test: every resource is a fresh one of capacity 1.
ResIdle ==
    /\ capacity = [r \in Resources |-> 1]
    /\ available = capacity
    /\ latest_release_time = [r \in Resources |-> NoneValue]
    /\ clock = 0

IsAvailable(r) == available[r] > 0

\* acquire(): takes one unit if is_available(), else refuses.
Acquire(r) ==
    /\ available' = IF IsAvailable(r) THEN [available EXCEPT ![r] = @ - 1]
                                      ELSE available
    /\ UNCHANGED <<capacity, latest_release_time, clock>>

\* release(release_time): one unit back, and the time is recorded.
Release(r, release_time) ==
    /\ available' = [available EXCEPT ![r] = @ + 1]
    /\ latest_release_time' =
          [latest_release_time EXCEPT ![r] = [datetime |-> release_time]]
    /\ UNCHANGED capacity

\* A caller's acquire() on a resource.
ResAcquire ==
    /\ \E r \in Resources : Acquire(r)
    /\ UNCHANGED <<sem_vars, cfg_vars, sim_vars, playout_vars, trace_vars, gen_vars>>

\* A caller's release(datetime.now()) on a resource; the clock never runs back.
ResRelease ==
    /\ \E r \in Resources, now \in clock..MaxClock :
          /\ available[r] < MaxAvailable
          /\ clock' = now
          /\ Release(r, now)
    /\ UNCHANGED <<sem_vars, cfg_vars, sim_vars, playout_vars, trace_vars, gen_vars>>

ResNext == ResAcquire \/ ResRelease

\* --------------------------------------------------------------- the engine
\* The engine is not under test.
SemIdle ==
    /\ sem_pc = "idle"
    /\ sem_arcs = <<>>
    /\ sem_t = "t1"
    /\ sem_m = <<>>
    /\ sem_out = NoOutput

SemInit ==
    /\ sem_pc = "build"
    /\ sem_arcs = <<>>
    /\ sem_t = "t1"
    /\ sem_m = <<>>
    /\ sem_out = NoOutput

\* net.arcs, t.in_arcs and t.out_arcs are sets of arc objects hashed by identity,
\* so the order of creation is not observable and two arcs with the same
\* endpoints coexist.  With weights >= 1 the value execute and weak_execute
\* leave on a place depends only on the sum of the weights taken from it, so
\* the arcs are created in one canonical order (by ArcRank).
NodeRank(n) ==
    CASE n = "p1" -> 0 [] n = "p2" -> 1 [] n = "t1" -> 2 [] n = "t2" -> 3 [] OTHER -> 4

ArcRank(a) == (NodeRank(a.source) * 5 + NodeRank(a.target)) * 3 + a.weight

\* The net is built arc by arc; arcs join a place and a transition of the net.
SemAddArc ==
    /\ sem_pc = "build"
    /\ Len(sem_arcs) < MaxArcs
    /\ \E p \in Places, t \in NetTransitions, w \in Weights, inward \in BOOLEAN :
          LET fr == IF inward THEN p ELSE t
              to == IF inward THEN t ELSE p
              arcs == AddSimArcFromTo(fr, to, sem_arcs, w)
          IN /\ IF sem_arcs = <<>> THEN TRUE
                ELSE ArcRank(sem_arcs[Len(sem_arcs)]) <= ArcRank(arcs[Len(arcs)])
             /\ sem_arcs' = arcs
    /\ UNCHANGED <<sem_pc, sem_t, sem_m, sem_out>>
    /\ UNCHANGED <<res_vars, cfg_vars, sim_vars, playout_vars, trace_vars, gen_vars>>

\* The four engine operations applied to one (transition, net, marking); m_after
\* is the caller's marking as each of them leaves it.
SemCall ==
    /\ sem_pc = "build"
    /\ \E t \in AllTransitions, m \in InputMarkings :
          /\ sem_t' = t
          /\ sem_m' = m
          /\ sem_out' = [is_enabled |-> IsEnabled(t, SemNet, m),
                         execute |-> Execute(t, SemNet, m),
                         weak_execute |-> WeakExecute(t, SemNet, m),
                         enabled_transitions |-> EnabledTransitions(SemNet, m),
                         m_after |->
                            [is_enabled |-> AfterIsEnabled(t, SemNet, m),
                             execute |-> AfterExecute(t, SemNet, m),
                             weak_execute |-> AfterWeakExecute(t, SemNet, m),
                             enabled_transitions |->
                                AfterEnabledTransitions(SemNet.transitions, SemNet, m)]]
    /\ sem_pc' = "called"
    /\ UNCHANGED sem_arcs
    /\ UNCHANGED <<res_vars, cfg_vars, sim_vars, playout_vars, trace_vars, gen_vars>>

SemNext == SemAddArc \/ SemCall

\* ------------------------------------------------------------ batch playout
InitialTimestamp == 1
InitialCaseId == 9

\* The parameters a caller passes to playout_algorithm or to the generator.
CfgInit ==
    /\ \E proc \in Processes :
          /\ net = proc.net
          /\ initial_marking = proc.im
          /\ final_marking \in {proc.fm, NoneValue}
    /\ max_trace_length \in 0..MaxTraceLength
    /\ add_only_if_fm_is_reached \in BOOLEAN
    /\ fm_leq_accepted \in BOOLEAN

\* The engines are not under test.
CfgIdle ==
    /\ net = SimpleNet({})
    /\ initial_marking = P1One
    /\ final_marking = P2One
    /\ no_traces = 0
    /\ max_trace_length = 0
    /\ add_only_if_fm_is_reached = FALSE
    /\ fm_leq_accepted = FALSE

\* Resources as constructed, each required one with any capacity.
ResForNet ==
    /\ capacity \in [Resources -> 0..MaxCapacity]
    /\ \A r \in Resources \ RequiredResources(net) : capacity[r] = 1
    /\ available = capacity
    /\ latest_release_time = [r \in Resources |-> NoneValue]
    /\ clock = 0

\* playout_algorithm, lines 133-134.
PlayoutInit ==
    /\ b_pc = "loop"
    /\ i = 0
    /\ all_visited_elements = <<>>
    /\ log = <<>>
    /\ visited_elements = <<>>
    /\ visible_transitions_visited = <<>>
    /\ marking = <<>>

PlayoutIdle ==
    /\ b_pc = "idle"
    /\ i = 0
    /\ all_visited_elements = <<>>
    /\ log = <<>>
    /\ visited_elements = <<>>
    /\ visible_transitions_visited = <<>>
    /\ marking = <<>>

MarkingElement(m) == [kind |-> "marking", value |-> m]
TransitionElement(t) == [kind |-> "transition", value |-> t]

\* random.choice returning None: the synthetic stop option.
StopChoice == "None"

\* select_transition offering the stop option at every marking.
SelectTransition_AlwaysStop(all_enabled_trans, fm, m, leq) ==
    all_enabled_trans \cup {StopChoice}

\* select_transition: the values choice() may return.
SelectTransition(all_enabled_trans, fm, m, leq) ==
    IF fm # NoneValue /\ MarkingLeq(fm, m) /\ (MarkingEq(fm, m) \/ leq)
    THEN all_enabled_trans \cup {StopChoice}
    ELSE all_enabled_trans

\* should_add_trace requiring the final marking also when the flag is off.
ShouldAddTrace_IgnoresFlag(m, fm, add_only, leq) ==
    \/ MarkingEq(fm, m)
    \/ (MarkingLeq(fm, m) /\ leq)

\* should_add_trace, for a final marking that is not None.
ShouldAddTrace(m, fm, add_only, leq) ==
    \/ ~add_only
    \/ MarkingEq(fm, m)
    \/ (MarkingLeq(fm, m) /\ leq)

\* str(n) for n >= 0: the decimal digits.
RECURSIVE Str(_)
Str(n) == IF n < 10 THEN <<n>> ELSE Str(n \div 10) \o <<n % 10>>

\* convert_to_event_log without the test of the label: every transition is recorded.
RECURSIVE TraceEvents_RecordsSilent(_, _, _)
TraceEvents_RecordsSilent(elements, curr_timestamp, pn) ==
    IF elements = <<>> THEN [events |-> <<>>, curr_timestamp |-> curr_timestamp]
    ELSE LET element == Head(elements)
         IN IF element.kind = "transition"
            THEN LET new_timestamp == curr_timestamp + pn.duration[element.value]
                     rest == TraceEvents_RecordsSilent(Tail(elements), new_timestamp, pn)
                 IN [events |-> <<[activity |-> pn.label[element.value],
                                   timestamp |-> new_timestamp]>> \o rest.events,
                     curr_timestamp |-> rest.curr_timestamp]
            ELSE TraceEvents_RecordsSilent(Tail(elements), curr_timestamp, pn)

\* The events of one trace of convert_to_event_log and the cursor after it.
RECURSIVE TraceEvents(_, _, _)
TraceEvents(elements, curr_timestamp, pn) ==
    IF elements = <<>> THEN [events |-> <<>>, curr_timestamp |-> curr_timestamp]
    ELSE LET element == Head(elements)
         IN IF element.kind = "transition" /\ pn.label[element.value] # NoLabel
            THEN LET new_timestamp == curr_timestamp + pn.duration[element.value]
                     rest == TraceEvents(Tail(elements), new_timestamp, pn)
                 IN [events |-> <<[activity |-> pn.label[element.value],
                                   timestamp |-> new_timestamp]>> \o rest.events,
                     curr_timestamp |-> rest.curr_timestamp]
            ELSE TraceEvents(Tail(elements), curr_timestamp, pn)

\* The loop of convert_to_event_log from trace number index on.
RECURSIVE ConvertFrom(_, _, _, _, _)
ConvertFrom(visited_elements_list, index, curr_timestamp, initial_case_id, pn) ==
    IF visited_elements_list = <<>> THEN <<>>
    ELSE LET r == TraceEvents(Head(visited_elements_list), curr_timestamp, pn)
         IN <<[case_id |-> Str(index + initial_case_id), events |-> r.events]>>
            \o ConvertFrom(Tail(visited_elements_list), index + 1, r.curr_timestamp,
                           initial_case_id, pn)

\* enumerate starting at 1.
ConvertToEventLog_FromOne(visited_elements_list, initial_timestamp, initial_case_id, pn) ==
    ConvertFrom(visited_elements_list, 1, initial_timestamp, initial_case_id, pn)

ConvertToEventLog(visited_elements_list, initial_timestamp, initial_case_id, pn) ==
    ConvertFrom(visited_elements_list, 0, initial_timestamp, initial_case_id, pn)

\* The loop left after N attempts although some trace was accepted.
PlayoutBreaks_AbortsAfterN ==
    \/ Len(all_visited_elements) >= no_traces
    \/ i >= no_traces

\* playout_algorithm lines 137-146: the loop is left.
PlayoutBreaks ==
    \/ Len(all_visited_elements) >= no_traces
    \/ /\ i >= no_traces
       /\ (~add_only_if_fm_is_reached \/ Len(all_visited_elements) = 0)

\* The loop is left and the accepted traces are converted and returned.
PlayoutReturn ==
    /\ b_pc = "loop"
    /\ PlayoutBreaks
    /\ log' = ConvertToEventLog(all_visited_elements, InitialTimestamp,
                                InitialCaseId, net)
    /\ b_pc' = "returned"
    /\ UNCHANGED <<i, all_visited_elements, trace_vars>>
    /\ UNCHANGED <<cfg_vars, sim_vars, sem_vars, res_vars, gen_vars>>

\* execute_single_trace going on from the marking the last attempt left.
PlayoutStartTrace_KeepsMarking ==
    /\ b_pc = "loop"
    /\ ~PlayoutBreaks
    /\ i < MaxAttempts
    /\ visited_elements' = <<>>
    /\ visible_transitions_visited' = <<>>
    /\ marking' = marking
    /\ b_pc' = "trace"
    /\ UNCHANGED <<i, all_visited_elements, log>>
    /\ UNCHANGED <<cfg_vars, sim_vars, sem_vars, res_vars, gen_vars>>

\* execute_single_trace is entered (lines 46-48).
PlayoutStartTrace ==
    /\ b_pc = "loop"
    /\ ~PlayoutBreaks
    /\ i < MaxAttempts
    /\ visited_elements' = <<>>
    /\ visible_transitions_visited' = <<>>
    /\ marking' = Copy(initial_marking)
    /\ b_pc' = "trace"
    /\ UNCHANGED <<i, all_visited_elements, log>>
    /\ UNCHANGED <<cfg_vars, sim_vars, sem_vars, res_vars, gen_vars>>

\* The loop going on one pass beyond the bound (<= for <).
WhileCondition_OffByOne == Len(visible_transitions_visited) <= max_trace_length

\* while len(visible_transitions_visited) < max_trace_length
WhileCondition == Len(visible_transitions_visited) < max_trace_length

\* The while condition fails: the visible bound is reached.
TraceBound ==
    /\ b_pc = "trace"
    /\ ~WhileCondition
    /\ b_pc' = "check"
    /\ UNCHANGED <<i, all_visited_elements, log, trace_vars>>
    /\ UNCHANGED <<cfg_vars, sim_vars, sem_vars, res_vars, gen_vars>>

\* No transition is enabled: break.
TraceDeadlock ==
    /\ b_pc = "trace"
    /\ WhileCondition
    /\ EnabledTransitions(net, marking) = {}
    /\ visited_elements' = Append(visited_elements, MarkingElement(marking))
    /\ b_pc' = "check"
    /\ UNCHANGED <<i, all_visited_elements, log, visible_transitions_visited, marking>>
    /\ UNCHANGED <<cfg_vars, sim_vars, sem_vars, res_vars, gen_vars>>

\* select_transition returns None: break.
TraceStop ==
    /\ b_pc = "trace"
    /\ WhileCondition
    /\ EnabledTransitions(net, marking) # {}
    /\ StopChoice \in SelectTransition(EnabledTransitions(net, marking),
                                       final_marking, marking, fm_leq_accepted)
    /\ visited_elements' = Append(visited_elements, MarkingElement(marking))
    /\ b_pc' = "check"
    /\ UNCHANGED <<i, all_visited_elements, log, visible_transitions_visited, marking>>
    /\ UNCHANGED <<cfg_vars, sim_vars, sem_vars, res_vars, gen_vars>>

\* The marking recorded after the execution instead of before it.
TraceFire_RecordsAfter ==
    /\ b_pc = "trace"
    /\ WhileCondition
    /\ EnabledTransitions(net, marking) # {}
    /\ \E trans \in SelectTransition(EnabledTransitions(net, marking),
                                     final_marking, marking, fm_leq_accepted) :
          /\ trans # StopChoice
          /\ visited_elements' = visited_elements
                 \o <<MarkingElement(Execute(trans, net, marking)),
                      TransitionElement(trans)>>
          /\ visible_transitions_visited' =
                 IF net.label[trans] # NoLabel
                 THEN Append(visible_transitions_visited, trans)
                 ELSE visible_transitions_visited
          /\ marking' = Execute(trans, net, marking)
    /\ UNCHANGED <<b_pc, i, all_visited_elements, log>>
    /\ UNCHANGED <<cfg_vars, sim_vars, sem_vars, res_vars, gen_vars>>

\* select_transition returns a transition, which is recorded and executed.
TraceFire ==
    /\ b_pc = "trace"
    /\ WhileCondition
    /\ EnabledTransitions(net, marking) # {}
    /\ \E trans \in SelectTransition(EnabledTransitions(net, marking),
                                     final_marking, marking, fm_leq_accepted) :
          /\ trans # StopChoice
          /\ visited_elements' = visited_elements
                 \o <<MarkingElement(marking), TransitionElement(trans)>>
          /\ visible_transitions_visited' =
                 IF net.label[trans] # NoLabel
                 THEN Append(visible_transitions_visited, trans)
                 ELSE visible_transitions_visited
          /\ marking' = Execute(trans, net, marking)
    /\ UNCHANGED <<b_pc, i, all_visited_elements, log>>
    /\ UNCHANGED <<cfg_vars, sim_vars, sem_vars, res_vars, gen_vars>>

\* should_add_trace compares None with a marking: the comparison raises.
PlayoutCheckRaises ==
    /\ b_pc = "check"
    /\ add_only_if_fm_is_reached
    /\ final_marking = NoneValue
    /\ b_pc' = "raised"
    /\ UNCHANGED <<i, all_visited_elements, log, trace_vars>>
    /\ UNCHANGED <<cfg_vars, sim_vars, sem_vars, res_vars, gen_vars>>

\* Lines 153-157: the trace is added if should_add_trace, and i counts it.
PlayoutCheck ==
    /\ b_pc = "check"
    /\ ~(add_only_if_fm_is_reached /\ final_marking = NoneValue)
    /\ all_visited_elements' =
          IF ShouldAddTrace(marking, final_marking, add_only_if_fm_is_reached,
                            fm_leq_accepted)
          THEN Append(all_visited_elements, visited_elements)
          ELSE all_visited_elements
    /\ i' = i + 1
    /\ b_pc' = "loop"
    /\ UNCHANGED <<log, trace_vars>>
    /\ UNCHANGED <<cfg_vars, sim_vars, sem_vars, res_vars, gen_vars>>

BatchNext ==
    \/ PlayoutReturn
    \/ PlayoutStartTrace
    \/ TraceBound
    \/ TraceDeadlock
    \/ TraceStop
    \/ TraceFire
    \/ PlayoutCheckRaises
    \/ PlayoutCheck

\* ------------------------------------------------- PetriNetEventGenerator
\* No selection was made in the pass at hand.
NoSelection == "<unset>"

\* __init__: the case id and cursor as given, then _initialize_trace.
GenInit ==
    /\ g_pc = "idle"
    /\ current_marking = initial_marking
    /\ current_case_id = InitialCaseId
    /\ current_timestamp = InitialTimestamp
    /\ visible_transitions_count = 0
    /\ events = <<>>
    /\ current_transition = NoSelection
    /\ twin_timestamp = InitialTimestamp
    /\ twin_events = <<>>
    /\ twin_clock = 0
    /\ callback_calls = <<>>

\* No generator is under test.
GenIdle ==
    /\ g_pc = "off"
    /\ current_marking = <<>>
    /\ current_case_id = 0
    /\ current_timestamp = 0
    /\ visible_transitions_count = 0
    /\ events = <<>>
    /\ current_transition = NoSelection
    /\ twin_timestamp = 0
    /\ twin_events = <<>>
    /\ twin_clock = 0
    /\ callback_calls = <<>>

\* _should_start_new_trace
ShouldStartNewTrace ==
    \/ visible_transitions_count >= max_trace_length
    \/ EnabledTransitions(net, current_marking) = {}

\* _is_trace_acceptable, for a final marking that is not None or a flag that is off.
IsTraceAcceptable(m) ==
    \/ ~add_only_if_fm_is_reached
    \/ MarkingEq(final_marking, m)
    \/ (final_marking # NoneValue /\ MarkingLeq(final_marking, m) /\ fm_leq_accepted)

\* self.final_marking == marking is evaluated with final_marking None.
ComparesNone == add_only_if_fm_is_reached /\ final_marking = NoneValue

\* The state after lines 167-172 when the trace at hand is not rejected:
\* _start_new_trace if _should_start_new_trace, else as it is.
MarkingAtSelection ==
    IF ShouldStartNewTrace THEN initial_marking ELSE current_marking

CaseIdAtSelection ==
    IF ShouldStartNewTrace THEN current_case_id + 1 ELSE current_case_id

CountAtSelection ==
    IF ShouldStartNewTrace THEN 0 ELSE visible_transitions_count

\* Lines 167-172 go on to the selection: no rejected trace, no raise.
ReachesSelection ==
    ShouldStartNewTrace => (~ComparesNone /\ IsTraceAcceptable(current_marking))

\* _fire_transition: the values choice() may return.
FireTransition(enabled_transitions) ==
    SelectTransition(enabled_transitions, final_marking, MarkingAtSelection,
                     fm_leq_accepted)

\* The case id stays within the model's range.
CaseIdInRange(id) == id - InitialCaseId <= MaxCases

\* The caller asks for the next event.
GenCall ==
    /\ g_pc = "idle"
    /\ Len(events) < MaxEvents
    /\ g_pc' = "next"
    /\ current_transition' = NoSelection
    /\ UNCHANGED <<current_marking, current_case_id, current_timestamp,
                   visible_transitions_count, events>>
    /\ UNCHANGED <<twin_timestamp, twin_events, twin_clock, callback_calls>>
    /\ UNCHANGED <<cfg_vars, sim_vars, playout_vars, trace_vars, sem_vars, res_vars>>

\* _handle_invalid_trace: the trace is not acceptable; the marking and count
\* are reset, the cursor is set to datetime.now(), the case id stays; continue.
GenResetInvalid ==
    /\ g_pc = "next"
    /\ ShouldStartNewTrace
    /\ ~ComparesNone
    /\ ~IsTraceAcceptable(current_marking)
    /\ \E now \in clock..MaxClock :
          /\ clock' = now
          /\ current_timestamp' = now
    /\ \E now \in twin_clock..MaxClock :
          /\ twin_clock' = now
          /\ twin_timestamp' = now
    /\ current_marking' = initial_marking
    /\ visible_transitions_count' = 0
    /\ current_transition' = NoSelection
    /\ UNCHANGED <<g_pc, current_case_id, events, twin_events, callback_calls>>
    /\ UNCHANGED <<capacity, available, latest_release_time>>
    /\ UNCHANGED <<cfg_vars, sim_vars, playout_vars, trace_vars, sem_vars>>

\* None == marking raises inside pm4py's Marking.__eq__.
GenRaise ==
    /\ g_pc = "next"
    /\ ShouldStartNewTrace
    /\ ComparesNone
    /\ g_pc' = "raised"
    /\ UNCHANGED <<current_marking, current_case_id, current_timestamp,
                   visible_transitions_count, events, current_transition>>
    /\ UNCHANGED <<twin_timestamp, twin_events, twin_clock, callback_calls>>
    /\ UNCHANGED <<cfg_vars, sim_vars, playout_vars, trace_vars, sem_vars, res_vars>>

\* Lines 176-178: nothing is enabled at the marking at hand; _start_new_trace; continue.
GenNoEnabled ==
    /\ g_pc = "next"
    /\ ReachesSelection
    /\ EnabledTransitions(net, MarkingAtSelection) = {}
    /\ CaseIdInRange(CaseIdAtSelection + 1)
    /\ current_case_id' = CaseIdAtSelection + 1
    /\ current_marking' = initial_marking
    /\ visible_transitions_count' = 0
    /\ current_transition' = NoSelection
    /\ UNCHANGED <<g_pc, current_timestamp, events>>
    /\ UNCHANGED <<twin_timestamp, twin_events, twin_clock, callback_calls>>
    /\ UNCHANGED <<cfg_vars, sim_vars, playout_vars, trace_vars, sem_vars, res_vars>>

\* _start_new_trace handing every Resource back at the end of the trace.
GenStop_ReleasesResources ==
    /\ g_pc = "next"
    /\ ReachesSelection
    /\ EnabledTransitions(net, MarkingAtSelection) # {}
    /\ StopChoice \in FireTransition(EnabledTransitions(net, MarkingAtSelection))
    /\ CaseIdInRange(CaseIdAtSelection + 1)
    /\ current_case_id' = CaseIdAtSelection + 1
    /\ current_marking' = initial_marking
    /\ visible_transitions_count' = 0
    /\ current_transition' = StopChoice
    /\ available' = capacity
    /\ UNCHANGED <<g_pc, current_timestamp, events>>
    /\ UNCHANGED <<twin_timestamp, twin_events, twin_clock, callback_calls>>
    /\ UNCHANGED <<capacity, latest_release_time, clock>>
    /\ UNCHANGED <<cfg_vars, sim_vars, playout_vars, trace_vars, sem_vars>>

\* _fire_transition returns None; _execute_transition starts a new trace.
GenStop ==
    /\ g_pc = "next"
    /\ ReachesSelection
    /\ EnabledTransitions(net, MarkingAtSelection) # {}
    /\ StopChoice \in FireTransition(EnabledTransitions(net, MarkingAtSelection))
    /\ CaseIdInRange(CaseIdAtSelection + 1)
    /\ current_case_id' = CaseIdAtSelection + 1
    /\ current_marking' = initial_marking
    /\ visible_transitions_count' = 0
    /\ current_transition' = StopChoice
    /\ UNCHANGED <<g_pc, current_timestamp, events>>
    /\ UNCHANGED <<twin_timestamp, twin_events, twin_clock, callback_calls>>
    /\ UNCHANGED <<cfg_vars, sim_vars, playout_vars, trace_vars, sem_vars, res_vars>>

\* on_fire_callback of trans: the resource acquired or released, or nothing.
Callback(trans) ==
    LET cb == net.on_fire_callback[trans]
    IN CASE cb.kind = "acquire" -> Acquire(cb.resource) /\ clock' = clock
         [] cb.kind = "release" ->
               \E now \in clock..MaxClock : clock' = now /\ Release(cb.resource, now)
         [] OTHER -> UNCHANGED res_vars

\* Lines 140-141: the calls of on_fire_callback so far, each with the marking,
\* case id and transition it was given and the count and cursor of that moment.
Invoked(trans, m, id, count, cursor) ==
    IF net.on_fire_callback[trans].kind = "none" THEN callback_calls
    ELSE Append(callback_calls,
                [marking |-> m, case_id |-> id, transition |-> trans,
                 visible_transitions_count |-> count, current_timestamp |-> cursor])

\* _execute_transition invoking the callback although a resource is lacking.
GenSkip_InvokesCallback ==
    /\ g_pc = "next"
    /\ ReachesSelection
    /\ CaseIdInRange(CaseIdAtSelection)
    /\ \E trans \in EnabledTransitions(net, MarkingAtSelection) :
          /\ ~AllResourcesAvailable(trans, net, available)
          /\ current_transition' = trans
          /\ Callback(trans)
          /\ callback_calls' = Invoked(trans, MarkingAtSelection, CaseIdAtSelection,
                                       CountAtSelection, current_timestamp)
    /\ current_case_id' = CaseIdAtSelection
    /\ current_marking' = MarkingAtSelection
    /\ visible_transitions_count' = CountAtSelection
    /\ UNCHANGED <<g_pc, current_timestamp, events>>
    /\ UNCHANGED <<twin_timestamp, twin_events, twin_clock>>
    /\ UNCHANGED <<cfg_vars, sim_vars, playout_vars, trace_vars, sem_vars>>

\* The selected transition lacks a resource: _execute_transition returns None.
GenSkip ==
    /\ g_pc = "next"
    /\ ReachesSelection
    /\ CaseIdInRange(CaseIdAtSelection)
    /\ \E trans \in EnabledTransitions(net, MarkingAtSelection) :
          /\ ~AllResourcesAvailable(trans, net, available)
          /\ current_transition' = trans
    /\ current_case_id' = CaseIdAtSelection
    /\ current_marking' = MarkingAtSelection
    /\ visible_transitions_count' = CountAtSelection
    /\ UNCHANGED <<g_pc, current_timestamp, events>>
    /\ UNCHANGED <<twin_timestamp, twin_events, twin_clock, callback_calls>>
    /\ UNCHANGED <<cfg_vars, sim_vars, playout_vars, trace_vars, sem_vars, res_vars>>

\* A silent transition is executed: the marking moves, no event; continue.
GenFireSilent ==
    /\ g_pc = "next"
    /\ ReachesSelection
    /\ CaseIdInRange(CaseIdAtSelection)
    /\ \E trans \in EnabledTransitions(net, MarkingAtSelection) :
          /\ AllResourcesAvailable(trans, net, available)
          /\ net.label[trans] = NoLabel
          /\ current_transition' = trans
          /\ current_marking' = Execute(trans, net, MarkingAtSelection)
          /\ Callback(trans)
          /\ callback_calls' = Invoked(trans, Execute(trans, net, MarkingAtSelection),
                                       CaseIdAtSelection, CountAtSelection,
                                       current_timestamp)
    /\ current_case_id' = CaseIdAtSelection
    /\ visible_transitions_count' = CountAtSelection
    /\ UNCHANGED <<g_pc, current_timestamp, events>>
    /\ UNCHANGED <<twin_timestamp, twin_events, twin_clock>>
    /\ UNCHANGED <<cfg_vars, sim_vars, playout_vars, trace_vars, sem_vars>>

\* _create_event run before the callback: the callback finds the count and the
\* cursor already moved.
GenFireVisible_EventFirst ==
    /\ g_pc = "next"
    /\ ReachesSelection
    /\ CaseIdInRange(CaseIdAtSelection)
    /\ \E trans \in EnabledTransitions(net, MarkingAtSelection) :
          /\ AllResourcesAvailable(trans, net, available)
          /\ net.label[trans] # NoLabel
          /\ current_transition' = trans
          /\ current_marking' = Execute(trans, net, MarkingAtSelection)
          /\ Callback(trans)
          /\ callback_calls' = Invoked(trans, Execute(trans, net, MarkingAtSelection),
                                       CaseIdAtSelection, CountAtSelection + 1,
                                       current_timestamp + net.duration[trans])
          /\ current_timestamp' = current_timestamp + net.duration[trans]
          /\ events' = Append(events,
                 [activity |-> net.label[trans],
                  timestamp |-> current_timestamp + net.duration[trans],
                  case_id |-> Str(CaseIdAtSelection)])
          /\ twin_timestamp' = twin_timestamp + net.duration[trans]
          /\ twin_events' = Append(twin_events,
                 [activity |-> net.label[trans],
                  timestamp |-> twin_timestamp + net.duration[trans],
                  case_id |-> Str(CaseIdAtSelection)])
          /\ twin_clock' = twin_clock
    /\ current_case_id' = CaseIdAtSelection
    /\ visible_transitions_count' = CountAtSelection + 1
    /\ g_pc' = "idle"
    /\ UNCHANGED <<cfg_vars, sim_vars, playout_vars, trace_vars, sem_vars>>

\* __next__ dropping the event instead of returning it: the loop goes on.
GenFireVisible_GoesOn ==
    /\ g_pc = "next"
    /\ ReachesSelection
    /\ CaseIdInRange(CaseIdAtSelection)
    /\ \E trans \in EnabledTransitions(net, MarkingAtSelection) :
          /\ AllResourcesAvailable(trans, net, available)
          /\ net.label[trans] # NoLabel
          /\ current_transition' = trans
          /\ current_marking' = Execute(trans, net, MarkingAtSelection)
          /\ Callback(trans)
          /\ callback_calls' = Invoked(trans, Execute(trans, net, MarkingAtSelection),
                                       CaseIdAtSelection, CountAtSelection,
                                       current_timestamp)
    /\ current_case_id' = CaseIdAtSelection
    /\ visible_transitions_count' = CountAtSelection + 1
    /\ UNCHANGED <<g_pc, current_timestamp, events>>
    /\ UNCHANGED <<twin_timestamp, twin_events, twin_clock>>
    /\ UNCHANGED <<cfg_vars, sim_vars, playout_vars, trace_vars, sem_vars>>

\* A visible transition is executed: _create_event, and __next__ returns it.
GenFireVisible ==
    /\ g_pc = "next"
    /\ ReachesSelection
    /\ CaseIdInRange(CaseIdAtSelection)
    /\ \E trans \in EnabledTransitions(net, MarkingAtSelection) :
          /\ AllResourcesAvailable(trans, net, available)
          /\ net.label[trans] # NoLabel
          /\ current_transition' = trans
          /\ current_marking' = Execute(trans, net, MarkingAtSelection)
          /\ Callback(trans)
          /\ callback_calls' = Invoked(trans, Execute(trans, net, MarkingAtSelection),
                                       CaseIdAtSelection, CountAtSelection,
                                       current_timestamp)
          /\ current_timestamp' = current_timestamp + net.duration[trans]
          /\ events' = Append(events,
                 [activity |-> net.label[trans],
                  timestamp |-> current_timestamp + net.duration[trans],
                  case_id |-> Str(CaseIdAtSelection)])
          /\ twin_timestamp' = twin_timestamp + net.duration[trans]
          /\ twin_events' = Append(twin_events,
                 [activity |-> net.label[trans],
                  timestamp |-> twin_timestamp + net.duration[trans],
                  case_id |-> Str(CaseIdAtSelection)])
          /\ twin_clock' = twin_clock
    /\ current_case_id' = CaseIdAtSelection
    /\ visible_transitions_count' = CountAtSelection + 1
    /\ g_pc' = "idle"
    /\ UNCHANGED <<cfg_vars, sim_vars, playout_vars, trace_vars, sem_vars>>

\* One pass of the while loop of __next__.
GenStep ==
    \/ GenResetInvalid
    \/ GenRaise
    \/ GenNoEnabled
    \/ GenStop
    \/ GenSkip
    \/ GenFireSilent
    \/ GenFireVisible

GenNext == GenCall \/ GenStep

\* ------------------------------------------ generators built with the defaults
\* PetriNetEventGenerator(net, im, fm): max_trace_length and initial_case_id
\* keep their defaults, both acceptance flags are off.
DefaultMaxTraceLength == 10000
DefaultInitialCaseId == 0

\* The processes handed to the simulators.
SimProcesses ==
    {[net |-> SimpleNet({"R1"}), im |-> P1One, fm |-> P2One],
     [net |-> LoopNet, im |-> P1One, fm |-> P2One],
     [net |-> DeadNet, im |-> P1One, fm |-> P2One],
     [net |-> PaintNet, im |-> P1One, fm |-> P2One]}

\* Positions in the list of processes: agent_0 and agent_1, worker 0 and 1.
AgentIds == {0, 1}
WorkerIds == {0, 1}

NewGenerator(pn, im, fm, now) ==
    [net |-> pn,
     initial_marking |-> im,
     final_marking |-> fm,
     current_marking |-> Copy(im),
     current_case_id |-> DefaultInitialCaseId,
     current_timestamp |-> now,
     visible_transitions_count |-> 0]

\* _handle_enabled_transition
GEnabled(g) == EnabledTransitions(g.net, g.current_marking)

GShouldStartNewTrace(g) ==
    \/ g.visible_transitions_count >= DefaultMaxTraceLength
    \/ GEnabled(g) = {}

GStartNewTrace(g) ==
    [g EXCEPT !.current_case_id = @ + 1,
              !.current_marking = Copy(g.initial_marking),
              !.visible_transitions_count = 0]

GFireTransition(g, enabled_transitions) ==
    SelectTransition(enabled_transitions, g.final_marking, g.current_marking, FALSE)

\* _execute_transition, line 138: the marking moves.
GExecute(g, trans) ==
    [g EXCEPT !.current_marking = Execute(trans, g.net, g.current_marking)]

\* _create_event: the generator after it and the event.
GCreateEvent(g, trans) ==
    [g |-> [g EXCEPT !.visible_transitions_count = @ + 1,
                     !.current_timestamp = @ + g.net.duration[trans]],
     event |-> [activity |-> g.net.label[trans],
                timestamp |-> g.current_timestamp + g.net.duration[trans],
                case_id |-> Str(g.current_case_id)]]

\* on_fire_callback of a transition of the net pn.
CallbackOf(pn, trans) ==
    LET cb == pn.on_fire_callback[trans]
    IN CASE cb.kind = "acquire" -> Acquire(cb.resource) /\ clock' = clock
         [] cb.kind = "release" ->
               \E now \in clock..MaxClock : clock' = now /\ Release(cb.resource, now)
         [] OTHER -> UNCHANGED res_vars

\* ------------------------------------------------------ AgentBasedNetSimulator
\* No simulator is under test.
SimIdle ==
    /\ s_pc = "off"
    /\ agents = <<>>
    /\ shared_resources = {}
    /\ event_log = <<>>
    /\ agent_index = 0
    /\ max_traces = 0
    /\ end_time = 0
    /\ selected_transition = NoSelection
    /\ unmatched_acquires = [r \in Resources |-> 0]
    /\ n_pc = "off"
    /\ workers = <<>>
    /\ touched_by = [r \in Resources |-> {}]
    /\ alone_available = <<>>
    /\ interfered = <<>>

WorkersIdle ==
    /\ n_pc = "off"
    /\ workers = <<>>
    /\ touched_by = [r \in Resources |-> {}]
    /\ alone_available = <<>>
    /\ interfered = <<>>

\* AgentBasedNetSimulator(processes) and the register_resource calls.
AgentsInit ==
    /\ s_pc = "start"
    /\ \E procs \in [AgentIds -> SimProcesses] :
          agents = [a \in AgentIds |->
                      [petri_net |-> procs[a].net,
                       initial_marking |-> procs[a].im,
                       final_marking |-> procs[a].fm,
                       generator |-> NoneValue,
                       event_log |-> <<>>]]
    /\ shared_resources \in {{}, {"R1"}}
    /\ event_log = <<>>
    /\ agent_index = 0
    /\ max_traces = 0
    /\ end_time = 0
    /\ selected_transition = NoSelection
    /\ unmatched_acquires = [r \in Resources |-> 0]

\* The shared resource R1 with any capacity.
ResForSim ==
    /\ capacity \in [Resources -> 0..MaxCapacity]
    /\ capacity["R2"] = 1
    /\ available = capacity
    /\ latest_release_time = [r \in Resources |-> NoneValue]
    /\ clock = 0

\* _can_acquire_resources: the required resources found in the registry are available.
CanAcquireResources(trans, pn, registry, av) ==
    \A r \in pn.resources[trans] : r \in registry => av[r] > 0

\* The quota test letting an agent at its quota tick once more (<= for <).
BelowQuota_Inclusive(a) == Len(agents[a].event_log) <= max_traces

\* The negation of len(agent.event_log) >= max_traces, line 273.
BelowQuota(a) == Len(agents[a].event_log) < max_traces

\* any() in place of all() at the end of a round.
AllAtQuota_Any == \E a \in AgentIds : ~BelowQuota(a)

\* all(len(agent.event_log) >= max_traces for agent in self.agents.values())
AllAtQuota == \A a \in AgentIds : ~BelowQuota(a)

\* simulate(max_traces, max_time), lines 264-269: the deadline is set and every
\* agent builds its generator, each reading the clock.
SimStart ==
    /\ s_pc = "start"
    /\ \E mt \in 0..MaxTraces, start_time \in clock..MaxClock :
         \E max_time \in 0..(MaxClock - start_time),
            built \in [AgentIds -> start_time..MaxClock] :
            /\ \A a, b \in AgentIds : a <= b => built[a] <= built[b]
            /\ max_traces' = mt
            /\ end_time' = start_time + max_time
            /\ agents' = [a \in AgentIds |->
                            [agents[a] EXCEPT !.generator =
                                NewGenerator(agents[a].petri_net,
                                             agents[a].initial_marking,
                                             agents[a].final_marking, built[a])]]
            /\ clock' = CHOOSE x \in {built[a] : a \in AgentIds} :
                            \A a \in AgentIds : built[a] <= x
    /\ s_pc' = "while"
    /\ UNCHANGED <<shared_resources, event_log, agent_index, selected_transition,
                   unmatched_acquires>>
    /\ UNCHANGED <<capacity, available, latest_release_time>>
    /\ UNCHANGED <<cfg_vars, playout_vars, trace_vars, gen_vars, sem_vars, worker_vars>>

\* while datetime.datetime.now() < end_time
SimWhile ==
    /\ s_pc = "while"
    /\ \E now \in clock..MaxClock :
          /\ clock' = now
          /\ s_pc' = IF now < end_time THEN "for" ELSE "returned"
    /\ agent_index' = 0
    /\ UNCHANGED <<agents, shared_resources, event_log, max_traces, end_time,
                   selected_transition, unmatched_acquires>>
    /\ UNCHANGED <<capacity, available, latest_release_time>>
    /\ UNCHANGED <<cfg_vars, playout_vars, trace_vars, gen_vars, sem_vars, worker_vars>>

\* The for loop is at an agent.
Ticking == s_pc = "for" /\ agent_index \in AgentIds

\* The tick is over: the for loop moves on.
TickEnds ==
    /\ agent_index' = agent_index + 1
    /\ UNCHANGED <<s_pc, shared_resources, max_traces, end_time>>
    /\ UNCHANGED <<cfg_vars, playout_vars, trace_vars, gen_vars, sem_vars, worker_vars>>

\* The tick made no firing.
TickIdles ==
    /\ TickEnds
    /\ UNCHANGED <<agents, event_log, unmatched_acquires, res_vars>>

\* Lines 273-274: the agent is at its quota; continue.
AgentAtQuota ==
    /\ Ticking
    /\ ~BelowQuota(agent_index)
    /\ selected_transition' = NoSelection
    /\ TickIdles

\* execute_next_transition, lines 340-341: nothing is enabled; return None.
AgentNoEnabled ==
    /\ Ticking
    /\ BelowQuota(agent_index)
    /\ GEnabled(agents[agent_index].generator) = {}
    /\ selected_transition' = NoSelection
    /\ TickIdles

\* _fire_transition returns None: line 345 is false; return None.
AgentStop ==
    /\ Ticking
    /\ BelowQuota(agent_index)
    /\ LET g == agents[agent_index].generator
       IN /\ GEnabled(g) # {}
          /\ StopChoice \in GFireTransition(g, GEnabled(g))
    /\ selected_transition' = StopChoice
    /\ TickIdles

\* _can_acquire_resources is false: a registered resource is unavailable.
AgentBlocked ==
    /\ Ticking
    /\ BelowQuota(agent_index)
    /\ LET g == agents[agent_index].generator
       IN \E trans \in GEnabled(g) :
             /\ ~CanAcquireResources(trans, g.net, shared_resources, available)
             /\ selected_transition' = trans
    /\ TickIdles

\* _execute_transition returns None: a resource off the registry is unavailable.
AgentSkip ==
    /\ Ticking
    /\ BelowQuota(agent_index)
    /\ LET g == agents[agent_index].generator
       IN \E trans \in GEnabled(g) :
             /\ CanAcquireResources(trans, g.net, shared_resources, available)
             /\ ~AllResourcesAvailable(trans, g.net, available)
             /\ selected_transition' = trans
    /\ TickIdles

\* The count of acquiring firings with no later releasing firing, after trans fired.
AfterFiring(pn, trans, count) ==
    LET cb == pn.on_fire_callback[trans]
    IN CASE cb.kind = "acquire" -> [count EXCEPT ![cb.resource] = @ + 1]
         [] cb.kind = "release" ->
               [count EXCEPT ![cb.resource] = IF @ > 0 THEN @ - 1 ELSE 0]
         [] OTHER -> count

\* A silent transition is executed: the marking moves; the tick returns None.
AgentFireSilent ==
    /\ Ticking
    /\ BelowQuota(agent_index)
    /\ LET g == agents[agent_index].generator
       IN \E trans \in GEnabled(g) :
             /\ CanAcquireResources(trans, g.net, shared_resources, available)
             /\ AllResourcesAvailable(trans, g.net, available)
             /\ g.net.label[trans] = NoLabel
             /\ agents' = [agents EXCEPT ![agent_index].generator = GExecute(g, trans)]
             /\ CallbackOf(g.net, trans)
             /\ unmatched_acquires' = AfterFiring(g.net, trans, unmatched_acquires)
             /\ selected_transition' = trans
    /\ UNCHANGED event_log
    /\ TickEnds

\* A visible transition is executed: the event gets the agent's id and is
\* appended to the agent's log and to the simulator's.
AgentFireVisible ==
    /\ Ticking
    /\ BelowQuota(agent_index)
    /\ LET g == agents[agent_index].generator
       IN \E trans \in GEnabled(g) :
             /\ CanAcquireResources(trans, g.net, shared_resources, available)
             /\ AllResourcesAvailable(trans, g.net, available)
             /\ g.net.label[trans] # NoLabel
             /\ LET made == GCreateEvent(GExecute(g, trans), trans)
                    event == [activity |-> made.event.activity,
                              timestamp |-> made.event.timestamp,
                              case_id |-> made.event.case_id,
                              agent_id |-> <<"agent", agent_index>>]
                IN /\ agents' = [agents EXCEPT
                                    ![agent_index].generator = made.g,
                                    ![agent_index].event_log = Append(@, event)]
                   /\ event_log' = Append(event_log, event)
             /\ CallbackOf(g.net, trans)
             /\ unmatched_acquires' = AfterFiring(g.net, trans, unmatched_acquires)
             /\ selected_transition' = trans
    /\ TickEnds

\* Lines 286-288: after the for loop, break if every agent is at its quota.
SimRoundEnd ==
    /\ s_pc = "for"
    /\ agent_index \notin AgentIds
    /\ s_pc' = IF AllAtQuota THEN "returned" ELSE "while"
    /\ UNCHANGED <<agents, shared_resources, event_log, agent_index, max_traces,
                   end_time, selected_transition, unmatched_acquires>>
    /\ UNCHANGED res_vars
    /\ UNCHANGED <<cfg_vars, playout_vars, trace_vars, gen_vars, sem_vars, worker_vars>>

AgentsNext ==
    \/ SimStart
    \/ SimWhile
    \/ AgentAtQuota
    \/ AgentNoEnabled
    \/ AgentStop
    \/ AgentBlocked
    \/ AgentSkip
    \/ AgentFireSilent
    \/ AgentFireVisible
    \/ SimRoundEnd

\* ---------------------------------------------------------------- NetSimulator
\* NetSimulator(processes).simulate(max_traces): one worker is submitted for
\* each process.
WorkersInit ==
    /\ n_pc = "running"
    /\ \E procs \in [WorkerIds -> SimProcesses] :
          workers = [w \in WorkerIds |->
                       [net |-> procs[w].net,
                        im |-> procs[w].im,
                        fm |-> procs[w].fm,
                        generator |-> NoneValue,
                        process_event_log |-> <<>>,
                        pc |-> "submitted"]]
    /\ touched_by = [r \in Resources |-> {}]
    /\ alone_available = [w \in WorkerIds |-> available]
    /\ interfered = [w \in WorkerIds |-> FALSE]

\* The simulator's fields while workers run.
AgentsIdle ==
    /\ s_pc = "off"
    /\ agents = <<>>
    /\ shared_resources = {}
    /\ event_log = <<>>
    /\ agent_index = 0
    /\ end_time = 0
    /\ selected_transition = NoSelection
    /\ unmatched_acquires = [r \in Resources |-> 0]

\* What a worker step leaves alone.
WorkerFrame ==
    /\ UNCHANGED <<n_pc, agent_vars>>
    /\ UNCHANGED <<cfg_vars, playout_vars, trace_vars, gen_vars, sem_vars>>

\* _simulate_process, line 214: the worker builds its generator.
WorkerStart(w) ==
    /\ n_pc = "running"
    /\ workers[w].pc = "submitted"
    /\ \E now \in clock..MaxClock :
          /\ clock' = now
          /\ workers' = [workers EXCEPT
                ![w].generator = NewGenerator(workers[w].net, workers[w].im,
                                              workers[w].fm, now),
                ![w].pc = "iterating"]
    /\ UNCHANGED <<capacity, available, latest_release_time>>
    /\ UNCHANGED <<touched_by, alone_available, interfered>>
    /\ WorkerFrame

\* The generator of w at the selection of a pass of __next__: with the flags
\* off every trace is acceptable, so a new trace is started where one is due.
AtSelection(w) ==
    LET g == workers[w].generator
    IN IF GShouldStartNewTrace(g) THEN GStartNewTrace(g) ELSE g

Iterating(w) ==
    /\ n_pc = "running"
    /\ workers[w].pc = "iterating"
    /\ AtSelection(w).current_case_id < MaxCases

\* The workers that touched a resource, after w read or wrote the resources rs.
Touch(w, rs) ==
    [r \in Resources |-> IF r \in rs THEN touched_by[r] \cup {w} ELSE touched_by[r]]

\* The counts worker w would see alone, after its own callback of trans.
AloneAfter(w, pn, trans) ==
    LET cb == pn.on_fire_callback[trans]
        av == alone_available[w]
    IN CASE cb.kind = "acquire" ->
               [alone_available EXCEPT ![w] =
                   IF av[cb.resource] > 0 THEN [av EXCEPT ![cb.resource] = @ - 1]
                   ELSE av]
         [] cb.kind = "release" ->
               [alone_available EXCEPT ![w] = [av EXCEPT ![cb.resource] = @ + 1]]
         [] OTHER -> alone_available

\* all_resources_available came out for w as it would not have alone.
Interference(w, pn, trans) ==
    [interfered EXCEPT ![w] =
        @ \/ (AllResourcesAvailable(trans, pn, available)
                 # AllResourcesAvailable(trans, pn, alone_available[w]))]

CallbackResources(pn, trans) ==
    IF pn.on_fire_callback[trans].kind = "none" THEN {}
    ELSE {pn.on_fire_callback[trans].resource}

\* __next__, lines 176-178: nothing is enabled; _start_new_trace; continue.
WorkerNoEnabled(w) ==
    /\ Iterating(w)
    /\ GEnabled(AtSelection(w)) = {}
    /\ workers' = [workers EXCEPT ![w].generator = GStartNewTrace(AtSelection(w))]
    /\ UNCHANGED <<touched_by, alone_available, interfered, res_vars>>
    /\ WorkerFrame

\* _fire_transition returns None; _execute_transition starts a new trace.
WorkerStop(w) ==
    /\ Iterating(w)
    /\ GEnabled(AtSelection(w)) # {}
    /\ StopChoice \in GFireTransition(AtSelection(w), GEnabled(AtSelection(w)))
    /\ workers' = [workers EXCEPT ![w].generator = GStartNewTrace(AtSelection(w))]
    /\ UNCHANGED <<touched_by, alone_available, interfered, res_vars>>
    /\ WorkerFrame

\* The selected transition lacks a resource: no firing in this pass.
WorkerSkip(w) ==
    /\ Iterating(w)
    /\ LET g == AtSelection(w)
       IN \E trans \in GEnabled(g) :
             /\ ~AllResourcesAvailable(trans, g.net, available)
             /\ touched_by' = Touch(w, g.net.resources[trans])
             /\ interfered' = Interference(w, g.net, trans)
             /\ workers' = [workers EXCEPT ![w].generator = g]
    /\ UNCHANGED <<alone_available, res_vars>>
    /\ WorkerFrame

\* A silent transition is executed; the loop of __next__ goes on.
WorkerFireSilent(w) ==
    /\ Iterating(w)
    /\ LET g == AtSelection(w)
       IN \E trans \in GEnabled(g) :
             /\ AllResourcesAvailable(trans, g.net, available)
             /\ g.net.label[trans] = NoLabel
             /\ workers' = [workers EXCEPT ![w].generator = GExecute(g, trans)]
             /\ CallbackOf(g.net, trans)
             /\ touched_by' = Touch(w, g.net.resources[trans]
                                          \cup CallbackResources(g.net, trans))
             /\ alone_available' = AloneAfter(w, g.net, trans)
             /\ interfered' = Interference(w, g.net, trans)
    /\ WorkerFrame

\* A visible transition is executed: the event is appended to
\* process_event_log, and the worker ends once it holds max_traces events.
WorkerFireVisible(w) ==
    /\ Iterating(w)
    /\ LET g == AtSelection(w)
       IN \E trans \in GEnabled(g) :
             /\ AllResourcesAvailable(trans, g.net, available)
             /\ g.net.label[trans] # NoLabel
             /\ LET made == GCreateEvent(GExecute(g, trans), trans)
                    process_event_log == Append(workers[w].process_event_log, made.event)
                IN workers' = [workers EXCEPT
                      ![w].generator = made.g,
                      ![w].process_event_log = process_event_log,
                      ![w].pc = IF Len(process_event_log) >= max_traces
                                THEN "done" ELSE "iterating"]
             /\ CallbackOf(g.net, trans)
             /\ touched_by' = Touch(w, g.net.resources[trans]
                                          \cup CallbackResources(g.net, trans))
             /\ alone_available' = AloneAfter(w, g.net, trans)
             /\ interfered' = Interference(w, g.net, trans)
    /\ WorkerFrame

\* The concatenation of the workers' results in the order of submission.
RECURSIVE Results(_)
Results(n) ==
    IF n \notin WorkerIds THEN <<>>
    ELSE workers[n].process_event_log \o Results(n + 1)

\* Lines 204-210: every future has its result; the log is returned.
NetReturn ==
    /\ n_pc = "running"
    /\ \A w \in WorkerIds : workers[w].pc = "done"
    /\ event_log' = Results(0)
    /\ n_pc' = "returned"
    /\ UNCHANGED <<s_pc, agents, shared_resources, agent_index, max_traces, end_time,
                   selected_transition, unmatched_acquires>>
    /\ UNCHANGED <<workers, touched_by, alone_available, interfered, res_vars>>
    /\ UNCHANGED <<cfg_vars, playout_vars, trace_vars, gen_vars, sem_vars>>

\* A worker builds its generator or makes one pass of the loop of __next__.
WorkersNext ==
    \/ \E w \in WorkerIds : WorkerStart(w)
    \/ \E w \in WorkerIds : WorkerNoEnabled(w)
    \/ \E w \in WorkerIds : WorkerStop(w)
    \/ \E w \in WorkerIds : WorkerSkip(w)
    \/ \E w \in WorkerIds : WorkerFireSilent(w)
    \/ \E w \in WorkerIds : WorkerFireVisible(w)
    \/ NetReturn

\* ------------------------------------------------- construction of any net
\* type(node): SimPlace or SimTransition.
TypeOf(n) == IF n \in Places THEN "SimPlace" ELSE "SimTransition"

\* add_sim_arc_from_to(fr, to, net, weight) for nodes of different types: the
\* arc is added to net.arcs, fr.out_arcs and to.in_arcs, whether or not fr and
\* to are registered in the net.
BuildAddArc ==
    /\ sem_pc = "build"
    /\ Len(sem_arcs) < MaxArcs
    /\ \E fr \in Places \cup AllTransitions, to \in Places \cup AllTransitions, w \in Weights :
          LET arcs == AddSimArcFromTo(fr, to, sem_arcs, w)
          IN /\ TypeOf(fr) # TypeOf(to)
             /\ IF sem_arcs = <<>> THEN TRUE
                ELSE ArcRank(sem_arcs[Len(sem_arcs)]) <= ArcRank(arcs[Len(arcs)])
             /\ sem_arcs' = arcs
    /\ UNCHANGED <<sem_pc, sem_t, sem_m, sem_out>>
    /\ UNCHANGED <<res_vars, cfg_vars, sim_vars, playout_vars, trace_vars, gen_vars>>

\* add_sim_arc_from_to for two places or two transitions: the constructor of
\* the arc raises before anything is added.
BuildRaises ==
    /\ sem_pc = "build"
    /\ \E fr \in Places \cup AllTransitions, to \in Places \cup AllTransitions :
          /\ TypeOf(fr) = TypeOf(to)
          /\ sem_t' = IF fr \in AllTransitions THEN fr ELSE sem_t
    /\ sem_pc' = "raised"
    /\ UNCHANGED <<sem_arcs, sem_m, sem_out>>
    /\ UNCHANGED <<res_vars, cfg_vars, sim_vars, playout_vars, trace_vars, gen_vars>>

BuildNext == BuildAddArc \/ BuildRaises \/ SemCall

\* ----------------------------------------------------------- specifications
InitBatch ==
    CfgInit /\ no_traces \in 0..MaxTraces /\ ResForNet /\ PlayoutInit /\ GenIdle /\ SemIdle
    /\ SimIdle

InitGen ==
    CfgInit /\ no_traces = 0 /\ ResForNet /\ PlayoutIdle /\ GenInit /\ SemIdle /\ SimIdle

SpecGen == InitGen /\ [][GenNext]_vars

\* The loop of __next__ keeps running while the call has not ended.
FairSpecGen == SpecGen /\ WF_vars(GenStep)

\* random.choice is fair to the firing of a visible transition: a selection
\* that could be made again and again is made at some time.
FairChoiceSpecGen == SpecGen /\ WF_vars(GenStep) /\ SF_vars(GenFireVisible)

SpecBatch == InitBatch /\ [][BatchNext]_vars

InitSem == SemInit /\ ResIdle /\ CfgIdle /\ PlayoutIdle /\ GenIdle /\ SimIdle

SpecSem == InitSem /\ [][SemNext]_vars

InitRes == ResInit /\ SemIdle /\ CfgIdle /\ PlayoutIdle /\ GenIdle /\ SimIdle

SpecRes == InitRes /\ [][ResNext]_vars

SpecBuild == InitSem /\ [][BuildNext]_vars

InitAgents ==
    AgentsInit /\ ResForSim /\ WorkersIdle /\ CfgIdle /\ PlayoutIdle /\ GenIdle /\ SemIdle

SpecAgents == InitAgents /\ [][AgentsNext]_vars

InitWorkers ==
    /\ ResForSim /\ WorkersInit /\ AgentsIdle /\ max_traces \in 0..MaxTraces
    /\ CfgIdle /\ PlayoutIdle /\ GenIdle /\ SemIdle

SpecWorkers == InitWorkers /\ [][WorkersNext]_vars

\* The generator alone or the agents, each driving generators.
InitGenAndAgents == InitGen \/ InitAgents

SpecGenAndAgents == InitGenAndAgents /\ [][GenNext \/ AgentsNext]_vars

\* The generator or the agents on any process, those of
\* example_mutualistic_net included: there the robot arm is RobotArm()
\* (capacity 1), and the simulator has it registered.
InitExample ==
    \/ InitGenAndAgents
    \/ /\ \E k \in 1..2 :
             /\ net = ExampleMutualisticNet[k].net
             /\ initial_marking = ExampleMutualisticNet[k].im
             /\ final_marking = ExampleMutualisticNet[k].fm
       /\ max_trace_length \in 0..MaxTraceLength
       /\ add_only_if_fm_is_reached \in BOOLEAN
       /\ fm_leq_accepted \in BOOLEAN
       /\ no_traces = 0
       /\ ResIdle /\ PlayoutIdle /\ GenInit /\ SemIdle /\ SimIdle
    \/ /\ s_pc = "start"
       /\ agents = [a \in AgentIds |->
                      [petri_net |-> ExampleMutualisticNet[a + 1].net,
                       initial_marking |-> ExampleMutualisticNet[a + 1].im,
                       final_marking |-> ExampleMutualisticNet[a + 1].fm,
                       generator |-> NoneValue,
                       event_log |-> <<>>]]
       /\ shared_resources = {"R1"}
       /\ event_log = <<>>
       /\ agent_index = 0
       /\ max_traces = 0
       /\ end_time = 0
       /\ selected_transition = NoSelection
       /\ unmatched_acquires = [r \in Resources |-> 0]
       /\ ResIdle /\ WorkersIdle /\ CfgIdle /\ PlayoutIdle /\ GenIdle /\ SemIdle

SpecExample == InitExample /\ [][GenNext \/ AgentsNext]_vars

\* Batch playout or the generator.
InitBatchAndGen == InitBatch \/ InitGen

SpecBatchAndGen == InitBatchAndGen /\ [][BatchNext \/ GenNext]_vars

\* ---------------------------------------------------- claims on BaseResource
\* C1: for a Resource of capacity c >= 0, after any sequence of acquire() and
\* release() calls 0 <= available <= c; a release() at available = capacity
\* does not raise available above capacity.
C1_AvailableWithinCapacity ==
    \A r \in Resources : 0 <= available[r] /\ available[r] <= capacity[r]

\* ------------------------------------------ claims on the streaming generator
\* The model's range of case ids is used up: no further trace can be started.
GenCapped == ~CaseIdInRange(CaseIdAtSelection + 1)

\* C3: a call of __next__ made on a net whose initial marking enables no
\* transition ends (it returns an event or signals exhaustion) instead of
\* looping over trace resets for ever.  (A pass of the loop that resets a
\* rejected trace leaves marking, count and case id as they were: TLC shows
\* the endless looping as a behaviour that stays in that state.)
C3_NextEnds ==
    [](( /\ g_pc = "next"
         /\ EnabledTransitions(net, initial_marking) = {})
          => <>(g_pc # "next" \/ GenCapped))

\* The number a string of decimal digits denotes.
RECURSIVE StrValue(_)
StrValue(digits) ==
    IF digits = <<>> THEN 0
    ELSE 10 * StrValue(SubSeq(digits, 1, Len(digits) - 1)) + digits[Len(digits)]

\* C19: in the event stream of one generator, of two events with the same case
\* identifier the one emitted later has a timestamp >= the earlier one's, for
\* every setting of the acceptance flags and every value the wall clock
\* returns when a rejected trace is reset.
C19_TimestampsMonotoneInCase ==
    \A j, k \in 1..Len(events) :
        (j < k /\ events[j].case_id = events[k].case_id) =>
            events[k].timestamp >= events[j].timestamp

\* A pass of __next__ starts at a trace boundary: the visible bound is reached
\* or no transition is enabled.
AtTraceBoundary == g_pc = "next" /\ ShouldStartNewTrace

\* C20: two traces never share a case id: a pass that handles a trace boundary,
\* whether the ending marking is acceptable or not, leaves a case id strictly
\* greater than the case id of every event emitted before, and a pass that
\* ends at the boundary handling leaves the initial marking and count 0.
C20_NewCaseAtBoundary ==
    [][(AtTraceBoundary /\ g_pc' # "raised") =>
          /\ \A k \in 1..Len(events) :
                current_case_id' > StrValue(events[k].case_id)
          /\ events' = events =>
                \/ (current_marking' = initial_marking /\ visible_transitions_count' = 0)
                \/ current_case_id' > current_case_id]_vars


\* The places of the example nets.
ProcessPlaces == {"p1", "p2", "p3"}

\* m1 <= m2 in the partial order of markings, absent places counting 0.
CountsLeq(m1, m2) == \A p \in ProcessPlaces : Get(m1, p) <= Get(m2, p)

\* The executed trace ended at the target, or above it with the superset flag on.
EndedAtTarget ==
    \/ \A p \in ProcessPlaces : Get(marking, p) = Get(final_marking, p)
    \/ (fm_leq_accepted /\ CountsLeq(final_marking, marking))

\* C2: a transition that lists a required Resource is never fired while that
\* Resource's available count is 0; with T of P1 -> T -> P2 requiring a
\* capacity-0 Resource no trace fires T or reaches {P2:1}.
C2_NoFiringWithoutResource ==
    /\ \A k \in 1..Len(visited_elements) :
          visited_elements[k].kind = "transition" =>
              AllResourcesAvailable(visited_elements[k].value, net, available)
    /\ (net = SimpleNet({"R1"}) /\ capacity["R1"] = 0 /\ b_pc \in {"trace", "check"})
          => marking # P2One

\* The acceptance relation of the selection rule: a final marking is configured
\* and m equals it, or is >= it while the superset flag is on.
SatisfiesTarget(m) ==
    /\ final_marking # NoneValue
    /\ \/ \A p \in ProcessPlaces : Get(m, p) = Get(final_marking, p)
       \/ (fm_leq_accepted /\ CountsLeq(final_marking, m))

\* The single-trace executor is about to select at marking.
BatchSelects ==
    /\ b_pc = "trace"
    /\ Len(visible_transitions_visited) < max_trace_length
    /\ EnabledTransitions(net, marking) # {}

\* The generator is about to select at the marking lines 167-172 leave.
GenSelects ==
    /\ g_pc = "next"
    /\ ReachesSelection
    /\ EnabledTransitions(net, MarkingAtSelection) # {}

\* The single-trace executor has just ended a trace by the stop option.
EndedByStop ==
    /\ b_pc = "check"
    /\ Len(visible_transitions_visited) < max_trace_length
    /\ visited_elements # <<>>
    /\ visited_elements[Len(visited_elements)].kind = "marking"
    /\ EnabledTransitions(net, marking) # {}

\* C15: in the single-trace executor and in the generator the stop option is
\* a selection candidate iff a final marking is configured and the current
\* marking equals it, or is >= it with the superset flag on; the other
\* candidates are exactly the enabled transitions; a trace that ends by stop
\* ends at a marking that satisfies that relation.
C15_StopOnlyAtTarget ==
    /\ BatchSelects =>
          LET cands == SelectTransition(EnabledTransitions(net, marking),
                                        final_marking, marking, fm_leq_accepted)
          IN /\ (StopChoice \in cands) <=> SatisfiesTarget(marking)
             /\ cands \ {StopChoice} = EnabledTransitions(net, marking)
    /\ GenSelects =>
          LET cands == FireTransition(EnabledTransitions(net, MarkingAtSelection))
          IN /\ (StopChoice \in cands) <=> SatisfiesTarget(MarkingAtSelection)
             /\ cands \ {StopChoice} = EnabledTransitions(net, MarkingAtSelection)
    /\ EndedByStop => SatisfiesTarget(marking)

\* The visible transitions among the first k elements of the trace at hand.
VisibleAmong(k) ==
    Cardinality({j \in 1..k : /\ visited_elements[j].kind = "transition"
                              /\ net.label[visited_elements[j].value] # NoLabel})

\* C16: in the single-trace executor the number of visible transitions fired
\* never exceeds max_trace_length, no transition, visible or silent, is fired
\* once that number equals max_trace_length, and with max_trace_length = 0
\* nothing is fired and the marking returned is the initial marking.
C16_VisibleBound ==
    b_pc \in {"trace", "check"} =>
        /\ Len(visible_transitions_visited) <= max_trace_length
        /\ VisibleAmong(Len(visited_elements)) <= max_trace_length
        /\ \A k \in 1..Len(visited_elements) :
              visited_elements[k].kind = "transition" =>
                  VisibleAmong(k - 1) < max_trace_length
        /\ max_trace_length = 0 =>
              (visited_elements = <<>> /\ marking = initial_marking)

\* A trace with a silent firing stopped at the bound.
C16_Witness ==
    /\ b_pc = "check"
    /\ max_trace_length >= 1
    /\ Len(visible_transitions_visited) = max_trace_length
    /\ VisibleAmong(Len(visited_elements)) < Len(SelectSeq(visited_elements,
                                                  LAMBDA e : e.kind = "transition"))

\* C17: in the returned log the k-th accepted trace (k = 0, 1, ...) carries
\* case id initial_case_id + k: the ids are pairwise distinct, consecutive and
\* numbered by accepted traces, so rejected attempts leave no gap.
C17_CaseIdsSequential ==
    b_pc = "returned" =>
        /\ Len(log) = Len(all_visited_elements)
        /\ \A k \in 1..Len(log) : StrValue(log[k].case_id) = InitialCaseId + (k - 1)
        /\ \A j, k \in 1..Len(log) : j # k => log[j].case_id # log[k].case_id

\* Two traces were accepted and at least one attempt was rejected.
C17_Witness ==
    /\ b_pc = "returned"
    /\ Len(log) >= 2
    /\ i > Len(log)

\* The visible transitions of a trace, in firing order.
VisibleTransitions(elements) ==
    SelectSeq(elements, LAMBDA e : e.kind = "transition" /\ net.label[e.value] # NoLabel)

\* C18: in the returned log every case has its own cursor starting at the
\* initial timestamp: the first event of a case is stamped initial timestamp +
\* its transition's duration, each later one the previous event's timestamp +
\* its transition's duration.
C18_CursorPerCase ==
    b_pc = "returned" =>
        \A k \in 1..Len(log) :
            LET fired == VisibleTransitions(all_visited_elements[k])
            IN /\ Len(log[k].events) = Len(fired)
               /\ \A j \in 1..Len(log[k].events) :
                     log[k].events[j].timestamp =
                        (IF j = 1 THEN InitialTimestamp
                         ELSE log[k].events[j - 1].timestamp)
                        + net.duration[fired[j].value]

\* C4: with the require-final-marking flag set, a trace is added to the log
\* only if it ended at the target final marking (at a marking >= the target,
\* superset flag on), and a trace that did not is never added; with the flag
\* off every executed trace is added.
C4_AddedOnlyIfAccepted ==
    [][(b_pc = "check" /\ b_pc' = "loop") =>
          IF add_only_if_fm_is_reached
          THEN EndedAtTarget \/ all_visited_elements' = all_visited_elements
          ELSE all_visited_elements' = Append(all_visited_elements, visited_elements)]_vars

\* C5: when the reachability-gated playout (N >= 1) stops with zero accepted
\* traces after N attempts, what the caller gets is not the plain return of an
\* empty log that a successful playout gives.
C5_UnreachableIsDistinct ==
    (/\ add_only_if_fm_is_reached
     /\ no_traces >= 1
     /\ i >= no_traces
     /\ Len(all_visited_elements) = 0
     /\ b_pc \notin {"loop", "trace", "check"})
        => ~(b_pc = "returned" /\ log = <<>>)

\* C6: with the require-final-marking flag off, playout with target N runs the
\* single-trace executor exactly N times and returns a log of exactly N traces.
C6_DefaultPolicyExactlyN ==
    (b_pc = "returned" /\ ~add_only_if_fm_is_reached) =>
        /\ i = no_traces
        /\ Len(log) = no_traces

C6_Witness ==
    /\ b_pc = "returned"
    /\ ~add_only_if_fm_is_reached
    /\ no_traces = MaxTraces
    /\ Len(log) = MaxTraces

\* C7: with the flag on, the playout stops exactly when N traces are accepted or
\* when N attempts were made and none accepted; the accepted traces never
\* exceed N, and with one accepted the loop is not left before N are.
C7_GatedPolicyStops ==
    /\ Len(all_visited_elements) <= no_traces
    /\ (b_pc = "returned" /\ add_only_if_fm_is_reached) =>
          \/ Len(all_visited_elements) = no_traces
          \/ (i = no_traces /\ Len(all_visited_elements) = 0)
    /\ (b_pc \in {"trace", "check"} /\ add_only_if_fm_is_reached) =>
          /\ Len(all_visited_elements) < no_traces
          /\ ~(i >= no_traces /\ Len(all_visited_elements) = 0)

\* N traces were collected in more than N attempts.
C7_Witness ==
    /\ b_pc = "returned"
    /\ add_only_if_fm_is_reached
    /\ no_traces >= 1
    /\ Len(all_visited_elements) = no_traces
    /\ i > no_traces

\* ------------------------------------------------- claims on the semantics
\* The sum of the weights of the arcs of a sequence.
RECURSIVE SumWeights(_)
SumWeights(arcs) ==
    IF arcs = <<>> THEN 0 ELSE Head(arcs).weight + SumWeights(Tail(arcs))

\* What firing sem_t takes from and puts on place p.
TakenFrom(p) ==
    SumWeights(SelectSeq(sem_arcs, LAMBDA a : a.source = p /\ a.target = sem_t))

PutOn(p) ==
    SumWeights(SelectSeq(sem_arcs, LAMBDA a : a.source = sem_t /\ a.target = p))

\* The firing rule: counts of sem_m minus inputs plus outputs, zero counts dropped.
FiringRuleMarking ==
    LET n == [p \in Places |-> Get(sem_m, p) - TakenFrom(p) + PutOn(p)]
    IN [p \in {q \in Places : n[q] # 0} |-> n[p]]

\* Every incoming arc of t finds its weight on its source place.
ArcsSatisfied(t) ==
    \A k \in 1..Len(sem_arcs) :
        sem_arcs[k].target = t => Get(sem_m, sem_arcs[k].source) >= sem_arcs[k].weight

\* C8: is_enabled(t, net, m) is true iff t is a transition of the net and every
\* incoming arc a of t has m[a.source] >= a.weight (absent places count 0), and
\* enabled_transitions(net, m) is exactly the set of the net's transitions with
\* that property.
C8_IsEnabledIff ==
    sem_pc = "called" =>
        /\ sem_out.is_enabled <=> (sem_t \in NetTransitions /\ ArcsSatisfied(sem_t))
        /\ sem_out.enabled_transitions = {t \in NetTransitions : ArcsSatisfied(t)}

\* An enabled transition with an incoming arc beside a transition that is not enabled.
C8_Witness ==
    /\ sem_pc = "called"
    /\ sem_out.is_enabled
    /\ Len(InArcs(sem_t, SemNet)) >= 1
    /\ Cardinality(sem_out.enabled_transitions) = 1

\* C9: for every enabled (t, m), execute returns m minus the incoming weights
\* plus the outgoing weights, a place being dropped exactly when its count is 0.
C9_ExecuteIsFiringRule ==
    (sem_pc = "called" /\ sem_out.is_enabled) => sem_out.execute = FiringRuleMarking

\* C10: executing an enabled transition on a marking whose counts are all >= 1
\* yields a marking in which every place present has count >= 1.
C10_NoNegativeTokens ==
    (sem_pc = "called" /\ sem_out.is_enabled) =>
        \A p \in DOMAIN sem_out.execute : sem_out.execute[p] >= 1

\* C11: execute on a transition that is not enabled, or not in the net, returns
\* the failure value None, which differs from every marking, the empty one
\* included, and leaves the input marking unchanged.
C11_ExecuteFailsCleanly ==
    (sem_pc = "called" /\ ~sem_out.is_enabled) =>
        /\ sem_out.execute = NoneValue
        /\ sem_out.execute # <<>>
        /\ ~(DOMAIN sem_out.execute \subseteq Places)
        /\ sem_out.m_after.execute = sem_m

\* execute was refused on a transition of the net whose input place is absent.
C11_Witness ==
    /\ sem_pc = "called"
    /\ sem_t \in NetTransitions
    /\ ~sem_out.is_enabled
    /\ \E k \in 1..Len(sem_arcs) :
          sem_arcs[k].target = sem_t /\ sem_arcs[k].source \notin DOMAIN sem_m

Neighborhood ==
    {p \in Places : \E k \in 1..Len(sem_arcs) :
        \/ (sem_arcs[k].source = p /\ sem_arcs[k].target = sem_t)
        \/ (sem_arcs[k].source = sem_t /\ sem_arcs[k].target = p)}

\* C13: for every enabled (t, m) and every place p that is neither a source of
\* an incoming arc of t nor a target of an outgoing arc of t, the count of p
\* in execute(t, net, m) equals the count of p in m.
C13_OutsideNeighborhoodKept ==
    (sem_pc = "called" /\ sem_out.is_enabled) =>
        \A p \in Places \ Neighborhood :
            Get(sem_out.execute, p) = Get(sem_m, p)

\* A firing emptied its input place while a place away from it held tokens.
C13_Witness ==
    /\ sem_pc = "called"
    /\ sem_out.is_enabled
    /\ \E p \in Places \ Neighborhood : Get(sem_m, p) >= 1
    /\ \E q \in Neighborhood : q \in DOMAIN sem_m /\ q \notin DOMAIN sem_out.execute

\* C14: weak_execute never fails; on every pair (t, m) that is_enabled accepts
\* it returns the marking execute returns; on the other pairs no place of its
\* result is held at a count <= 0.
C14_WeakExecuteAgrees ==
    sem_pc = "called" =>
        /\ sem_out.weak_execute # NoneValue
        /\ sem_out.is_enabled => sem_out.weak_execute = sem_out.execute
        /\ ~sem_out.is_enabled =>
              \A p \in DOMAIN sem_out.weak_execute : sem_out.weak_execute[p] >= 1

\* --------------------------------------- further claims on the generator
\* The trace at hand is ended by the bound or by deadlock at a marking that
\* fails the acceptance predicate.
EndsRejected ==
    /\ g_pc = "next"
    /\ ShouldStartNewTrace
    /\ add_only_if_fm_is_reached
    /\ final_marking # NoneValue
    /\ ~SatisfiesTarget(current_marking)

\* C21: with add_only_if_fm_is_reached set the generator emits events only for
\* traces that reach the final marking: when a trace is ended by the bound or
\* by deadlock at a marking that fails the acceptance predicate, no event of
\* that trace (visible_transitions_count counts them) has been returned.
C21_NoEventOfRejectedTrace ==
    EndsRejected => visible_transitions_count = 0

EventsOfCase(id) == {k \in DOMAIN events : events[k].case_id = id}

\* C23: the visible-firing count of the current trace never exceeds
\* max_trace_length and no case receives more than max_trace_length events,
\* for every max_trace_length >= 0 and every setting of the acceptance flags.
C23_TraceLengthBounded ==
    /\ visible_transitions_count <= max_trace_length
    /\ \A k \in DOMAIN events :
          Cardinality(EventsOfCase(events[k].case_id)) <= max_trace_length

\* C29: two generators built alike and fed the same selection draws emit the
\* same sequence of events: same activity, same timestamp, same case number.
C29_SameDrawsSameEvents ==
    events = twin_events

\* The pass of __next__ selects a transition that lacks a required resource.
GenAttemptBlocked ==
    /\ g_pc = "next"
    /\ current_transition' \in net.transitions
    /\ ~AllResourcesAvailable(current_transition', net, available)

\* The tick of an agent selects a transition that lacks a required resource.
AgentAttemptBlocked ==
    /\ Ticking
    /\ BelowQuota(agent_index)
    /\ selected_transition' \in agents[agent_index].petri_net.transitions
    /\ ~AllResourcesAvailable(selected_transition',
                              agents[agent_index].petri_net, available)

\* No callback ran: no resource changed.
ResourcesKept ==
    /\ available' = available
    /\ latest_release_time' = latest_release_time
    /\ capacity' = capacity

\* C22: when the selected transition has a required resource that is
\* unavailable, the firing attempt emits no event, leaves the marking, case id,
\* cursor timestamp and visible count as they were at the selection and every
\* resource's available count unchanged, and the callback is not invoked, in a
\* pass of the streaming generator and in a tick of an agent.
C22_BlockedAttemptChangesNothing ==
    [][/\ GenAttemptBlocked =>
             /\ events' = events
             /\ current_marking' = MarkingAtSelection
             /\ current_case_id' = CaseIdAtSelection
             /\ current_timestamp' = current_timestamp
             /\ visible_transitions_count' = CountAtSelection
             /\ ResourcesKept
       /\ AgentAttemptBlocked =>
             /\ agents' = agents
             /\ event_log' = event_log
             /\ ResourcesKept]_vars

\* An agent on the painting net selected the releasing transition while the
\* registered resource was taken, after an event had been logged.
C22_Witness ==
    /\ s_pc = "for"
    /\ agent_index \in {1, 2}
    /\ agents[agent_index - 1].petri_net.name = "paint"
    /\ selected_transition = "t2"
    /\ "R1" \in shared_resources
    /\ available["R1"] = 0
    /\ event_log # <<>>

\* The pass of __next__ fires the transition it selected.
GenFires ==
    /\ g_pc = "next"
    /\ current_transition' \in net.transitions
    /\ AllResourcesAvailable(current_transition', net, available)

\* C24: a silent transition is never recorded as an event: in the log of
\* batch playout every trace has as many events as visible transitions were
\* fired in it; in the generator an event is emitted exactly by the firing of
\* a visible transition, and the firing of a silent one moves the marking by
\* the firing rule and leaves the events, the cursor timestamp and the visible
\* count as they were.
C24_SilentNeverRecorded ==
    /\ [](b_pc = "returned" =>
            \A k \in 1..Len(log) :
               Len(log[k].events) = Len(VisibleTransitions(all_visited_elements[k])))
    /\ [][/\ (GenFires /\ net.label[current_transition'] = NoLabel) =>
                /\ events' = events
                /\ current_timestamp' = current_timestamp
                /\ visible_transitions_count' = CountAtSelection
                /\ current_marking' =
                      Execute(current_transition', net, MarkingAtSelection)
          /\ (GenFires /\ net.label[current_transition'] # NoLabel) =>
                Len(events') = Len(events) + 1
          /\ events' # events =>
                (GenFires /\ net.label[current_transition'] # NoLabel)]_vars

\* The generator fired a silent transition that moved the marking, after an
\* event had been emitted.
C24_Witness ==
    /\ g_pc = "next"
    /\ current_transition \in net.transitions
    /\ net.label[current_transition] = NoLabel
    /\ current_marking # initial_marking
    /\ events # <<>>

\* ------------------------------------------------ claims on the simulators
\* C25: with a shared resource of capacity c, the number of acquiring firings
\* not yet matched by a later releasing firing never exceeds c, across all
\* agents.
C25_HoldersWithinCapacity ==
    \A r \in Resources : unmatched_acquires[r] <= capacity[r]

\* The agent at the for loop is at a trace boundary for the tick it makes.
AgentAtBoundary ==
    /\ Ticking
    /\ BelowQuota(agent_index)
    /\ \/ GEnabled(agents[agent_index].generator) = {}
       \/ selected_transition' = StopChoice

\* C26: a tick of an agent handles the trace boundary as a pass of the
\* generator does: when the agent's marking enables no transition or stop is
\* selected, the agent is reset to a fresh trace with a new case id.
C26_TickHandlesBoundary ==
    [][AgentAtBoundary =>
          LET before == agents[agent_index].generator
              after == agents'[agent_index].generator
          IN /\ after.current_case_id > before.current_case_id
             /\ after.visible_transitions_count = 0]_vars

EveryAgentAtQuota == \A a \in AgentIds : Len(agents[a].event_log) >= max_traces

\* C27: the scheduling loop ends only when the deadline has elapsed at the
\* head of a round or every agent is at its quota at the end of one, and it
\* does end there; while every agent is at its quota no tick changes anything,
\* and while the deadline has not elapsed at the head of a round the loop
\* goes into the round.
C27_LoopEndsOnDeadlineOrQuota ==
    [][/\ (s_pc \in {"while", "for"} /\ s_pc' = "returned") =>
             \/ (s_pc = "while" /\ clock' >= end_time)
             \/ (s_pc = "for" /\ EveryAgentAtQuota)
       /\ (s_pc = "while" /\ clock' >= end_time) => s_pc' = "returned"
       /\ (s_pc = "while" /\ clock' < end_time) => s_pc' = "for"
       /\ (s_pc = "for" /\ agent_index \notin AgentIds /\ EveryAgentAtQuota) =>
             s_pc' = "returned"
       /\ (s_pc = "for" /\ agent_index \notin AgentIds /\ ~EveryAgentAtQuota) =>
             s_pc' = "while"
       /\ (s_pc = "for" /\ EveryAgentAtQuota) =>
             (agents' = agents /\ event_log' = event_log)]_vars

\* The loop ended on the quota, before the deadline, with events logged.
C27_Witness ==
    /\ s_pc = "returned"
    /\ EveryAgentAtQuota
    /\ clock < end_time
    /\ event_log # <<>>

\* C28: no resource is read or written by two workers, and every
\* availability test of a worker comes out as it would if the worker ran
\* alone with the same choices.
C28_WorkersShareNothing ==
    /\ \A r \in Resources : Cardinality(touched_by[r]) <= 1
    /\ \A w \in DOMAIN interfered : ~interfered[w]

\* ---------------------------------------- claims on the construction of nets
WellFormedArc(a) ==
    \/ (a.source \in Places /\ a.target \in NetTransitions)
    \/ (a.source \in NetTransitions /\ a.target \in Places)

\* C30: the net never holds an arc with an endpoint that is not registered in
\* it or an arc between two places or two transitions, so no simulation step
\* runs on such a net.
C30_MalformedNetRejected ==
    \A k \in 1..Len(sem_arcs) : WellFormedArc(sem_arcs[k])

\* The net P1 -[1]-> T (A, duration 10) -[1]-> P2 played out for one trace.
OneTraceOfSimpleNet ==
    /\ net.name = "simple"
    /\ initial_marking = P1One
    /\ final_marking = P2One
    /\ no_traces = 1
    /\ max_trace_length >= 1

\* C31: for the net P1 -> T (A, 10) -> P2 with initial marking {P1:1} and final
\* marking {P2:1}, a batch playout of one trace with max trace length >= 1 and
\* any flag setting returns a log of exactly one case with exactly one event,
\* of activity A and timestamp initial timestamp + 10, and the executor's
\* final marking is {P2:1}.
C31_SimpleNetOneEvent ==
    (b_pc = "returned" /\ OneTraceOfSimpleNet) =>
        /\ Len(log) = 1
        /\ log[1].events = <<[activity |-> "A", timestamp |-> InitialTimestamp + 10]>>
        /\ marking = P2One

\* The playout of the simple net has returned with the gating flag on.
C31_Witness ==
    /\ b_pc = "returned"
    /\ OneTraceOfSimpleNet
    /\ add_only_if_fm_is_reached
    /\ max_trace_length = 2
    /\ Len(log) = 1

\* The marking that follows position k of the visited sequence: the next
\* recorded marking, or the marking the executor holds.
MarkingAfter(k) ==
    IF k < Len(visited_elements) THEN visited_elements[k + 1].value ELSE marking

\* C32: the visited sequence of the single-trace executor is a firing sequence
\* from the initial marking: every recorded transition is enabled at the
\* marking recorded just before it, the next recorded marking (or the final
\* marking) is the result of executing it, and a trace halted below the bound
\* without the stop option ends at a marking that enables no transition.
C32_VisitedIsFiringSequence ==
    b_pc \in {"trace", "check"} =>
        /\ visited_elements # <<>> =>
              visited_elements[1] = MarkingElement(initial_marking)
        /\ \A k \in 1..Len(visited_elements) :
              visited_elements[k].kind = "transition" =>
                  /\ k > 1
                  /\ visited_elements[k - 1].kind = "marking"
                  /\ visited_elements[k].value \in net.transitions
                  /\ IsEnabled(visited_elements[k].value, net,
                               visited_elements[k - 1].value)
                  /\ MarkingAfter(k) = Execute(visited_elements[k].value, net,
                                               visited_elements[k - 1].value)
        /\ \A k \in 1..Len(visited_elements) :
              (visited_elements[k].kind = "marking" /\ k > 1) =>
                  visited_elements[k - 1].kind = "transition"
        /\ ( /\ b_pc = "check"
             /\ Len(visible_transitions_visited) < max_trace_length
             /\ ~(/\ final_marking # NoneValue
                  /\ MarkingLeq(final_marking, marking)) )
           => \A t \in net.transitions : ~IsEnabled(t, net, marking)

\* A trace that fired and then halted by deadlock below the bound.
C32_Witness ==
    /\ b_pc = "check"
    /\ Len(visited_elements) >= 3
    /\ Len(visible_transitions_visited) < max_trace_length
    /\ \A t \in net.transitions : ~IsEnabled(t, net, marking)

\* The call of on_fire_callback the pass has added, given the marking, case id
\* and transition the pass ends with and the count and cursor it began with.
CallbackSawFiring ==
    callback_calls' = Append(callback_calls,
        [marking |-> current_marking',
         case_id |-> current_case_id',
         transition |-> current_transition',
         visible_transitions_count |-> CountAtSelection,
         current_timestamp |-> current_timestamp])

\* C33: for each firing of the generator that is not skipped the marking is
\* replaced by the result of execute, then the callback (if the transition has
\* one) is invoked exactly once with the new marking, the current case id and
\* the transition, and only then, for a visible transition, the count is
\* raised by 1, the cursor advanced by the duration and the event built with
\* that timestamp and case id; a stop selection or a skipped firing invokes no
\* callback.
C33_CallbackBetweenExecuteAndEvent ==
    [][ /\ GenFires =>
           /\ current_marking' = Execute(current_transition', net, MarkingAtSelection)
           /\ IF net.on_fire_callback[current_transition'].kind = "none"
              THEN callback_calls' = callback_calls
              ELSE CallbackSawFiring
           /\ net.label[current_transition'] # NoLabel =>
                 /\ visible_transitions_count' = CountAtSelection + 1
                 /\ current_timestamp' =
                        current_timestamp + net.duration[current_transition']
                 /\ events' = Append(events,
                        [activity |-> net.label[current_transition'],
                         timestamp |-> current_timestamp',
                         case_id |-> Str(current_case_id')])
        /\ ~GenFires => callback_calls' = callback_calls
      ]_vars

\* A visible transition with a callback has fired in a second trace.
C33_Witness ==
    /\ g_pc = "idle"
    /\ Len(events) = 2
    /\ callback_calls # <<>>
    /\ callback_calls[Len(callback_calls)].case_id > InitialCaseId
    /\ callback_calls[Len(callback_calls)].transition = current_transition

\* The pass of __next__ begins a trace: by a reset, or by _start_new_trace
\* before or after the selection.
GenBeginsTrace ==
    /\ g_pc = "next"
    /\ g_pc' # "raised"
    /\ (ShouldStartNewTrace \/ current_case_id' # current_case_id)

\* C34: every trace starts from the configured initial marking: no firing,
\* reset or batch attempt changes the places and counts of the stored initial
\* marking, each attempt of batch playout starts at a marking equal to it, and
\* each trace of the generator starts at it (a pass that begins a trace and
\* fires leaves the result of executing the transition at it).
C34_TracesStartAtInitialMarking ==
    [][ /\ initial_marking' = initial_marking
        /\ (b_pc = "loop" /\ b_pc' = "trace") => marking' = initial_marking
        /\ GenBeginsTrace =>
              current_marking' =
                  IF GenFires
                  THEN Execute(current_transition', net, initial_marking)
                  ELSE initial_marking
      ]_vars

\* A later attempt of batch playout starts after an attempt that fired.
C34_Witness ==
    /\ b_pc = "trace"
    /\ i >= 1
    /\ all_visited_elements # <<>>
    /\ Len(all_visited_elements[1]) >= 3
    /\ visited_elements = <<>>
    /\ marking = initial_marking

\* Resource r is the same after the step as before it.
ResourceKept(r) ==
    /\ capacity'[r] = capacity[r]
    /\ available'[r] = available[r]
    /\ latest_release_time'[r] = latest_release_time[r]

\* C35: a trace reset of the generator (by the bound, by deadlock or by the
\* stop option) changes no Resource: a pass that fires nothing leaves every
\* available count and last-release time as it was, and a pass that begins a
\* trace and fires changes at most the Resource of the fired transition's
\* callback; a Resource acquired in a trace that ended before its release stays
\* unavailable in the later traces.
C35_ResetKeepsResources ==
    [][ /\ (g_pc = "next" /\ ~GenFires) => \A r \in Resources : ResourceKept(r)
        /\ (GenBeginsTrace /\ GenFires) =>
              \A r \in Resources :
                  \/ ResourceKept(r)
                  \/ /\ net.on_fire_callback[current_transition'].kind # "none"
                     /\ net.on_fire_callback[current_transition'].resource = r
      ]_vars

\* The Resource acquired in an earlier trace is still unavailable after the
\* reset that ended that trace.
C35_Witness ==
    /\ g_pc = "next"
    /\ current_transition = StopChoice
    /\ current_marking = initial_marking
    /\ callback_calls # <<>>
    /\ callback_calls[Len(callback_calls)].case_id < current_case_id
    /\ net.on_fire_callback[callback_calls[Len(callback_calls)].transition].kind = "acquire"
    /\ capacity["R1"] = 1
    /\ available["R1"] = 0

\* The processes of example_mutualistic_net are run: one of them by the
\* generator, or both by the agents with the robot arm registered.
RunsExample ==
    \/ g_pc # "off" /\ net \in {ExampleNetA, ExampleNetB}
    \/ /\ s_pc # "off"
       /\ agents[0].petri_net = ExampleNetA
       /\ agents[1].petri_net = ExampleNetB
       /\ "R1" \in shared_resources

\* C36: when the processes of example_mutualistic_net are run, the robot arm's
\* available count is 0 or 1 in every reachable state.
C36_RobotArmZeroOrOne ==
    RunsExample => available["R1"] \in {0, 1}

\* The agents whose event log the step has changed.
GrownLogs == {a \in AgentIds : agents'[a].event_log # agents[a].event_log}

\* The last event of the simulator's combined log.
LastEvent == event_log[Len(event_log)]

\* C37: in the multi-agent simulator no agent's event log ever holds more than
\* max_traces events, every event of an agent's log carries that agent's
\* agent_id, each tick adds at most one event, to the log of the agent being
\* served, and the simulator's combined log grows by exactly that event, so it
\* holds the agents' events in service order.
C37_AgentLogsWithinQuota ==
    /\ [](s_pc \in {"while", "for", "returned"} =>
             /\ \A a \in AgentIds :
                   /\ Len(agents[a].event_log) <= max_traces
                   /\ \A k \in 1..Len(agents[a].event_log) :
                         agents[a].event_log[k].agent_id = <<"agent", a>>
                   /\ SelectSeq(event_log, LAMBDA e : e.agent_id = <<"agent", a>>)
                          = agents[a].event_log)
    /\ [][ (s_pc \in {"while", "for"}) =>
              \/ GrownLogs = {} /\ event_log' = event_log
              \/ /\ GrownLogs = {agent_index}
                 /\ agents'[agent_index].event_log
                        = Append(agents[agent_index].event_log, LastEvent')
                 /\ LastEvent'.agent_id = <<"agent", agent_index>>
                 /\ event_log' = Append(event_log, LastEvent')
       ]_vars

\* Both agents have filled their quota of two events, served in turn.
C37_Witness ==
    /\ s_pc = "returned"
    /\ max_traces = 2
    /\ \A a \in AgentIds : Len(agents[a].event_log) = 2
    /\ event_log[1].agent_id # event_log[2].agent_id

\* A net with no resource requirements and only visible transitions, one of
\* them enabled at the initial marking, run with max_trace_length >= 1 and the
\* require-final-marking flag off.
PlainVisibleNet ==
    /\ RequiredResources(net) = {}
    /\ \A t \in net.transitions : net.label[t] # NoLabel
    /\ EnabledTransitions(net, initial_marking) # {}
    /\ max_trace_length >= 1
    /\ ~add_only_if_fm_is_reached

\* C38: on a net with no resource requirements, only visible transitions and a
\* transition enabled at the initial marking, with max_trace_length >= 1 and
\* the require-final-marking flag off, every call of __next__ (made while the
\* model's range of case ids is not used up) returns an event after finitely
\* many passes of its loop, provided the selection is fair to firing.
C38_NextReturnsEvent ==
    [](( /\ g_pc = "next"
         /\ PlainVisibleNet
         /\ CaseIdInRange(CaseIdAtSelection))
          => <>(g_pc = "idle"))

\* The second call has returned an event of a later trace, on a net where the
\* stop option was a candidate in between.
C38_Witness ==
    /\ g_pc = "idle"
    /\ PlainVisibleNet
    /\ final_marking # NoneValue
    /\ fm_leq_accepted
    /\ net.name = "double"
    /\ Len(events) = 2
    /\ events[1].case_id # events[2].case_id

\* C39: the current marking of the generator is never the failure value of
\* execute: in every reachable state of the generator, and of the generator of
\* every agent of the simulator, the current marking is a marking.
C39_CurrentMarkingIsMarking ==
    /\ g_pc # "off" => current_marking # NoneValue
    /\ s_pc \in {"while", "for", "returned"} =>
          \A a \in AgentIds : agents[a].generator.current_marking # NoneValue

\* An agent has fired twice and its generator holds the marking reached.
C39_Witness ==
    /\ s_pc = "returned"
    /\ \E a \in AgentIds :
          /\ Len(agents[a].event_log) = 2
          /\ agents[a].generator.current_marking # NoneValue
          /\ agents[a].generator.current_marking # agents[a].initial_marking

Spec == SpecSem
====
